---- MODULE Spec2Model ----
(***************************************************************************)
(* Classroom participation tracker: the participation-request lifecycle,   *)
(* the point ledger and the events published by the HTTP handlers of       *)
(* server/routes.ts over the store of server/database-storage.ts.          *)
(*                                                                         *)
(* Every handler is an async function: it runs atomically between two      *)
(* `await storage.X(...)` points, and each storage call is one SQL         *)
(* statement.  A handler invocation is a "call" held in a slot; an action  *)
(* is one storage statement of one call together with the synchronous code *)
(* that precedes it, or the synchronous tail that broadcasts and responds. *)
(* Calls of different slots interleave freely at these points.             *)
(***************************************************************************)
EXTENDS Integers, Sequences, FiniteSets, TLC

\* ------------------------------------------------------------------ bounds
MaxCalls    == 2   \* slots for handler invocations
MaxRequests == 2   \* rows of participation_requests
MaxEvents   == 2   \* a handler that will publish starts only below this many events
MaxTime     == 1   \* last value of the clock
TicksPerDay == 1   \* clock ticks in one calendar day
MaxConnections == 2  \* WebSocket connections accepted by the server
MaxReceived == 3   \* a client sends a message only while it has received fewer
MaxBrowserSockets == 3  \* WebSocket objects one provider creates
MaxClock == 3000   \* last value of the browser's clock, in milliseconds
TickStep == 1000   \* the browser's clock advances by this many milliseconds
MaxConnectionId == 4  \* last value of the provider's connection id
MaxSubscriptions == 3  \* calls of subscribe
MaxFailedRecordId == 3  \* a store call of an award fails only below this record id
MaxUnsubscribeCalls == 3  \* calls of the functions subscribe returned

\* ------------------------------------------------------- users of the store
\* MemStorage seeds an admin (id 1) and a student (id 2); a second student
\* (id 3) is registered.  Id 4 resolves to no user.
AdminId  == 1
StudentA == 2
StudentB == 3
NoUserId == 4
NoSession == 0   \* the caller of a request that carries no login session

Users == {AdminId, StudentA, StudentB}

\* table users: id, username, password (its hash), role and name of each row
users ==
    [u \in Users |->
        [id |-> u, role |-> IF u = AdminId THEN "admin" ELSE "student",
         username |-> <<"user", u>>, password |-> <<"hash", u>>,
         name |-> <<"name", u>>]]

\* ensureAuthenticated: 0 for next(), otherwise the status of the response
ensureAuthenticated(u) == IF u \in Users THEN 0 ELSE 401

\* every logged-in user passes
ensureAdmin_anyUser(u) == IF u \notin Users THEN 401 ELSE 0

\* ensureAdmin: 0 for next(), otherwise the status of the response
ensureAdmin(u) ==
    IF u \notin Users THEN 401
    ELSE IF users[u].role = "admin" THEN 0
    ELSE 403

\* an id that matches no row falls back to the seeded student
getUser_orSeededStudent(id) ==
    IF id \in DOMAIN users THEN <<users[id]>> ELSE <<users[StudentA]>>

\* storage.getUser(id): the row, or undefined (modelled as the empty sequence)
getUser(id) ==
    IF id \in DOMAIN users THEN <<users[id]>> ELSE <<>>

\* values a client can put in the body of POST /api/participation-records
StudentIds == {AdminId, StudentA, StudentB, NoUserId}
Points     == {-1, 0, 8}
RequestIds == 0..MaxRequests      \* 0: no requestId in the body

\* the bodies tried: 8 points to either student with every requestId, the
\* other amounts to student A without a requestId, and one award each to
\* the admin and to an id that resolves to no user
AwardBodies ==
    [studentId : {StudentA, StudentB}, points : {8}, requestId : RequestIds]
      \cup [studentId : {StudentA}, points : Points, requestId : {0}]
      \cup {[studentId |-> AdminId, points |-> 8, requestId |-> 1],
            [studentId |-> NoUserId, points |-> 8, requestId |-> 0]}

\* the bodies of POST /api/participation-requests: studentId is 0 when the
\* body names none
NoBody == [studentId |-> 0]
OpenRequestBodies == {NoBody, [studentId |-> StudentA], [studentId |-> StudentB]}

\* {studentId: req.user.id, ...req.body}: a studentId of the body wins
RequestData_bodyWins(body, user) ==
    IF body.studentId # 0 THEN body ELSE [body EXCEPT !.studentId = user.id]

\* insertParticipationRequestSchema.parse({...req.body, studentId: req.user.id})
RequestData(body, user) == [body EXCEPT !.studentId = user.id]

\* who asks for whose total in GET /api/students/:id/participation-points
PointsQueries ==
    {<<AdminId, StudentA>>, <<AdminId, StudentB>>, <<AdminId, NoUserId>>,
     <<StudentA, StudentA>>, <<StudentB, StudentB>>, <<StudentA, StudentB>>}

\* the callers of the two admin-only routes: the admin and one student
AdminRouteCallers == {AdminId, StudentA}

\* the callers of the routes that change the store: these, and a caller
\* who is not logged in
AnyCaller == Users \cup {NoSession}
AnyAdminRouteCaller == AdminRouteCallers \cup {NoSession}

\* the callers of GET /api/participation-requests: any authenticated user
ListCallers == {AdminId, StudentA}

Slots == 1..MaxCalls

VARIABLES
    participationRequests,        \* table participation_requests: row i has id i
    participationRecords,         \* table participation_records: a set of rows
    participationRecordCurrentId, \* next value of the records' SERIAL id
    now,                          \* the last value read from the clock (new Date())
    published,                    \* the messages handed to broadcastToAll, in order
    calls,                        \* the handler invocations in flight, by slot
    awarded,                      \* history: per student, the points of every record
                                  \* ever inserted for them, added up
    wssClients,                   \* wss.clients: the server's sockets, in insertion order
    sockets,                      \* per connection: readyState, the handler's userId,
                                  \* the messages sent to the peer, whether send throws
    connectedClients,             \* Map<userId, Set<WebSocket>> of routes.ts
    provider,                     \* WebSocketProvider: its React state and its refs
    browserSockets,               \* the WebSocket objects the provider has created
    clientClock,                  \* the browser's clock, in milliseconds
    lastClose,                    \* history: the last unexpected close that no
                                  \* connection attempt has followed yet
    dashboard                     \* AdminDashboard: the request queue and the record
                                  \* list on display, and the events it has got

\* the store, the clock and the HTTP handlers
httpVars == <<participationRequests, participationRecords, participationRecordCurrentId,
              now, published, calls, awarded>>

\* the server's side of the WebSocket channel
channelVars == <<wssClients, sockets, connectedClients>>

\* the browser: its side of the WebSocket channel, and the dashboard
clientVars == <<provider, browserSockets, clientClock, lastClose, dashboard>>

vars == <<participationRequests, participationRecords, participationRecordCurrentId,
          now, published, calls, awarded, channelVars, clientVars>>

\* ------------------------------------------------------------- clock helpers
\* Date.setHours(0, 0, 0, 0)
StartOfDay(t) == (t \div TicksPerDay) * TicksPerDay

\* Date.setHours(23, 59, 59, 999)
EndOfDay(t) == StartOfDay(t) + (TicksPerDay - 1)

\* ----------------------------------------------------- text <-> number
\* node-postgres returns SUM(integer), a bigint, as a decimal string.
Digits == <<"0", "1", "2", "3", "4", "5", "6", "7", "8", "9">>

IsDigit(ch) == \E d \in 1..10 : Digits[d] = ch

DigitValue(ch) == (CHOOSE d \in 1..10 : Digits[d] = ch) - 1

RECURSIVE FormatNat(_)
FormatNat(n) ==
    IF n < 10 THEN <<Digits[n + 1]>>
    ELSE FormatNat(n \div 10) \o <<Digits[(n % 10) + 1]>>

\* the decimal text of an integer, as PostgreSQL prints a bigint
FormatInt(n) ==
    IF n < 0 THEN <<"-">> \o FormatNat(0 - n) ELSE FormatNat(n)

NaN == "NaN"

RECURSIVE ParseDigits(_, _, _)
\* the value of the longest prefix of digits of s from position i, acc so far
ParseDigits(s, i, acc) ==
    IF i > Len(s) \/ ~IsDigit(s[i]) THEN acc
    ELSE ParseDigits(s, i + 1, acc * 10 + DigitValue(s[i]))

\* JavaScript parseInt(s): optional sign, then the longest run of digits
parseInt(s) ==
    LET neg   == Len(s) >= 1 /\ s[1] = "-"
        first == IF Len(s) >= 1 /\ (s[1] = "-" \/ s[1] = "+") THEN 2 ELSE 1
    IN  IF first > Len(s) \/ ~IsDigit(s[first]) THEN NaN
        ELSE IF neg THEN 0 - ParseDigits(s, first, 0)
        ELSE ParseDigits(s, first, 0)

\* ------------------------------------------------------------ the store
\* INSERT INTO participation_requests ... RETURNING *
NewRequest(reqs, studentId, timestamp) ==
    [id |-> Len(reqs) + 1, studentId |-> studentId,
     timestamp |-> timestamp, active |-> TRUE]

\* an upsert keyed by student: raising a hand again re-activates the old row
createParticipationRequest_reuse(reqs, studentId, timestamp) ==
    IF \E i \in DOMAIN reqs : reqs[i].studentId = studentId
    THEN [i \in DOMAIN reqs |->
            IF reqs[i].studentId = studentId
            THEN [reqs[i] EXCEPT !.active = TRUE, !.timestamp = timestamp]
            ELSE reqs[i]]
    ELSE Append(reqs, NewRequest(reqs, studentId, timestamp))

createParticipationRequest(reqs, studentId, timestamp) ==
    Append(reqs, NewRequest(reqs, studentId, timestamp))

\* FROM participation_requests pr JOIN users u ON pr.student_id = u.id
\* WHERE pr.active = true: the rows selected
ActiveRows(reqs) ==
    {reqs[i] : i \in {j \in DOMAIN reqs :
                        reqs[j].active /\ reqs[j].studentId \in DOMAIN users}}

\* the rows come back in any order
OrderedByTimestamp_unordered(rows) ==
    {list \in [1..Cardinality(rows) -> rows] :
        \A i, j \in 1..Cardinality(rows) : i < j => list[i] # list[j]}

\* ORDER BY pr.timestamp: the orders in which the rows can come back, rows
\* with equal timestamps in either order
OrderedByTimestamp(rows) ==
    {list \in [1..Cardinality(rows) -> rows] :
        \A i, j \in 1..Cardinality(rows) :
            i < j => (list[i] # list[j] /\ list[i].timestamp <= list[j].timestamp)}

\* SELECT ... ORDER BY pr.timestamp, for the callers that do not depend on
\* the order of rows with equal timestamps
getActiveParticipationRequests(reqs) ==
    CHOOSE list \in OrderedByTimestamp(ActiveRows(reqs)) : TRUE

\* SELECT * FROM participation_requests WHERE id = $1
getParticipationRequestById(reqs, id) ==
    IF id \in DOMAIN reqs THEN <<reqs[id]>> ELSE <<>>

\* SET active = NOT active
deactivateParticipationRequest_toggle(reqs, id) ==
    [i \in DOMAIN reqs |->
        IF i = id THEN [reqs[i] EXCEPT !.active = ~reqs[i].active] ELSE reqs[i]]

\* UPDATE participation_requests SET active = false WHERE id = $1
deactivateParticipationRequest(reqs, id) ==
    [i \in DOMAIN reqs |-> IF i = id THEN [reqs[i] EXCEPT !.active = FALSE] ELSE reqs[i]]

\* ... RETURNING *: the updated row, or undefined
DeactivatedRow(reqs, id) ==
    getParticipationRequestById(deactivateParticipationRequest(reqs, id), id)

\* the search compares the row's own id with the user's id
FindExistingRequest_byRowId(activeRequests, userId) ==
    SelectSeq(activeRequests, LAMBDA r : r.id = userId)

\* activeRequests.find(r => r.student && r.student.id === req.user.id)
FindExistingRequest(activeRequests, userId) ==
    SelectSeq(activeRequests, LAMBDA r : r.studentId = userId)

\* INSERT INTO participation_records ... RETURNING *  (hidden takes its default)
NewRecord(id, studentId, points, timestamp) ==
    [id |-> id, studentId |-> studentId, points |-> points,
     timestamp |-> timestamp, hidden |-> FALSE]

\* one row per student: the insert replaces the student's earlier rows
createParticipationRecord_onePerStudent(recs, id, studentId, points, timestamp) ==
    {r \in recs : r.studentId # studentId}
        \cup {NewRecord(id, studentId, points, timestamp)}

\* the insert replaces the table's rows
createParticipationRecord_replace(recs, id, studentId, points, timestamp) ==
    {NewRecord(id, studentId, points, timestamp)}

\* an upsert: the points are added to the student's rows, if there are any
createParticipationRecord_addToExisting(recs, id, studentId, points, timestamp) ==
    IF \E r \in recs : r.studentId = studentId
    THEN {IF r.studentId = studentId THEN [r EXCEPT !.points = @ + points] ELSE r
            : r \in recs}
    ELSE recs \cup {NewRecord(id, studentId, points, timestamp)}

createParticipationRecord(recs, id, studentId, points, timestamp) ==
    recs \cup {NewRecord(id, studentId, points, timestamp)}

\* the lower bound is missing: WHERE timestamp <= endOfDay
RecordsFromDate_untilEndOfDay(recs, date) ==
    {r \in recs : r.timestamp <= EndOfDay(date)}

\* the rows matched by DELETE FROM participation_records
\* WHERE timestamp >= startOfDay AND timestamp <= endOfDay
RecordsFromDate(recs, date) ==
    {r \in recs : r.timestamp >= StartOfDay(date) /\ r.timestamp <= EndOfDay(date)}

deleteParticipationRecordsFromDate(recs, date) ==
    recs \ RecordsFromDate(recs, date)

RECURSIVE SqlSumPoints(_)
\* SUM(points) over a non-empty set of rows
SqlSumPoints(rows) ==
    IF rows = {} THEN 0
    ELSE LET r == CHOOSE x \in rows : TRUE
         IN  r.points + SqlSumPoints(rows \ {r})

\* the sum skips the hidden rows: ... AND hidden = false
SelectSumPoints_visibleOnly(recs, studentId) ==
    LET rows == {r \in recs : r.studentId = studentId /\ ~r.hidden}
    IN  IF rows = {} THEN [null |-> TRUE, text |-> <<>>]
        ELSE [null |-> FALSE, text |-> FormatInt(SqlSumPoints(rows))]

\* SELECT SUM(points) as total FROM participation_records WHERE student_id = $1:
\* NULL over no rows, otherwise the sum as text
SelectSumPoints(recs, studentId) ==
    LET rows == {r \in recs : r.studentId = studentId}
    IN  IF rows = {} THEN [null |-> TRUE, text |-> <<>>]
        ELSE [null |-> FALSE, text |-> FormatInt(SqlSumPoints(rows))]

\* parseInt(result.rows[0]?.total || '0')
getTotalParticipationPointsByStudent(recs, studentId) ==
    LET total == SelectSumPoints(recs, studentId)
    IN  parseInt(IF total.null \/ total.text = <<>> THEN <<"0">> ELSE total.text)

\* result.rows.map(row => ({id, studentId, courseId, points, feedback, note,
\* timestamp, student})): the objects built from the rows of every student
\* (their order, by timestamp, is left out).  The objects have no `hidden`.
getAllParticipationRecords(recs) ==
    {[id |-> r.id, studentId |-> r.studentId, points |-> r.points,
      timestamp |-> r.timestamp] : r \in recs}

\* ... WHERE student_id = $1, and the same mapping without `student`
getParticipationRecordsByStudent(recs, studentId) ==
    {[id |-> r.id, studentId |-> r.studentId, points |-> r.points,
      timestamp |-> r.timestamp] : r \in {x \in recs : x.studentId = studentId}}

\* useQuery(["/api/participation-requests"]): the requests the route returns
FetchRequests(reqs) == {r.id : r \in ActiveRows(reqs)}

\* useQuery(["/api/participation-records"]), sent by an instructor without
\* showHidden: the records the route returns
FetchRecords(recs) == {r.id : r \in getAllParticipationRecords(recs)}

\* ------------------------------------------------- the WebSocket server
ConnIds == 1..MaxConnections

\* a connection the server has not accepted yet
NewSocket ==
    [readyState |-> "CONNECTING", userId |-> 0, received |-> <<>>, sendThrows |-> FALSE,
     terminated |-> FALSE]

\* ws.send(JSON.stringify(message)): the message goes to the peer unless
\* send throws
Send(socket, message) ==
    IF socket.sendThrows THEN socket
    ELSE [socket EXCEPT !.received = Append(@, message)]

RECURSIVE forEachClient_noStateCheck(_, _, _, _)
\* the loop sends without looking at readyState
forEachClient_noStateCheck(clients, i, socks, message) ==
    IF i > Len(clients) THEN socks
    ELSE forEachClient_noStateCheck(clients, i + 1,
             [socks EXCEPT ![clients[i]] = Send(socks[clients[i]], message)], message)

RECURSIVE forEachClient_stopAtFailure(_, _, _, _)
\* the try/catch is around the loop: the first send that throws ends it
forEachClient_stopAtFailure(clients, i, socks, message) ==
    IF i > Len(clients) THEN socks
    ELSE IF socks[clients[i]].readyState = "OPEN" /\ socks[clients[i]].sendThrows
    THEN socks
    ELSE forEachClient_stopAtFailure(clients, i + 1,
             IF socks[clients[i]].readyState = "OPEN"
             THEN [socks EXCEPT ![clients[i]] = Send(socks[clients[i]], message)]
             ELSE socks, message)

RECURSIVE forEachClient(_, _, _, _)
\* wss.clients.forEach(client => { if (client.readyState === WebSocket.OPEN)
\*   try { client.send(...) } catch { log } }), from the i-th client on
forEachClient(clients, i, socks, message) ==
    IF i > Len(clients) THEN socks
    ELSE forEachClient(clients, i + 1,
             IF socks[clients[i]].readyState = "OPEN"
             THEN [socks EXCEPT ![clients[i]] = Send(socks[clients[i]], message)]
             ELSE socks, message)

\* broadcastToAll(message)
broadcastToAll(clients, socks, message) == forEachClient(clients, 1, socks, message)

RECURSIVE BroadcastEach(_, _, _)
\* one broadcastToAll call after the other, for the messages in order
BroadcastEach(clients, socks, messages) ==
    IF messages = <<>> THEN socks
    ELSE BroadcastEach(clients, broadcastToAll(clients, socks, Head(messages)),
                       Tail(messages))

\* connectedClients.has(userId) || connectedClients.set(userId, new Set());
\* connectedClients.get(userId).add(ws)
RegistryAdd(registry, userId, k) ==
    [u \in DOMAIN registry \cup {userId} |->
        IF u = userId
        THEN (IF u \in DOMAIN registry THEN registry[u] ELSE {}) \cup {k}
        ELSE registry[u]]

\* userConnections.delete(ws); if (userConnections.size === 0)
\* connectedClients.delete(userId)
RegistryDelete(registry, userId, k) ==
    IF userId \notin DOMAIN registry THEN registry
    ELSE IF registry[userId] \ {k} = {}
    THEN [u \in DOMAIN registry \ {userId} |-> registry[u]]
    ELSE [registry EXCEPT ![userId] = @ \ {k}]

\* the messages a client can send: a ping, a join with a userId (0: the
\* payload has no userId), a join without payload, and any other type
Ping == [type |-> "ping", payload |-> <<>>]
Join(userId) == [type |-> "join", payload |-> <<[userId |-> userId]>>]
JoinWithoutPayload == [type |-> "join", payload |-> <<>>]
OtherMessage == [type |-> "other", payload |-> <<>>]

JoinUserIds == {0, AdminId, StudentA}

ClientMessages == {Ping, JoinWithoutPayload, OtherMessage} \cup {Join(u) : u \in JoinUserIds}

\* what the server sends on its own
Welcome == [type |-> "welcome", id |-> 0]
Pong == [type |-> "pong", id |-> 0]
JoinConfirmed(userId) == [type |-> "joinConfirmed", id |-> userId]

\* ------------------------------------------------- the WebSocket client
BrowserSocketIds == 1..MaxBrowserSockets

\* useState(false) twice and the useRef initial values.  subscriptionsRef
\* holds the subscription objects, each known by `id`, its place among the
\* objects subscribe ever made.  Histories: `subscribed` is every subscription
\* ever made, `unsubscribeCalls` the ids whose unsubscribe function was
\* called, in order, `lastMessage` the type of the message received last and
\* the subscriptions whose callback it invoked, in order.  `rendered` holds the
\* state values of the last render, which the callbacks of that render see;
\* `mounted` is false until the first render's effects have run.
\* `pingTimers` is the set of interval timers that run, each known by the
\* socket whose open handler set it; pingIntervalRef holds the last one set.
\* `disconnected` is a history: the application's last call was disconnect().
\* `user` is the id of the user useAuth returns (0: nobody is logged in),
\* `timerUser` the `user` that the callback of the reconnect timer sees
NewProvider ==
    [connected |-> FALSE, connecting |-> FALSE,
     rendered |-> [connected |-> FALSE, connecting |-> FALSE, user |-> StudentA],
     mounted |-> FALSE, user |-> StudentA, timerUser |-> 0,
     webSocketRef |-> 0, reconnectTimeoutRef |-> -1, pingIntervalRef |-> 0,
     pingTimers |-> {}, disconnected |-> FALSE,
     reconnectAttemptsRef |-> 0, isUnmountingRef |-> FALSE, connectionIdRef |-> 0,
     courseIdRef |-> 0,
     subscriptionsRef |-> <<>>, subscribed |-> <<>>, unsubscribeCalls |-> <<>>,
     lastMessage |-> [type |-> "none", invoked |-> <<>>]]

\* a WebSocket object that `new WebSocket(wsUrl)` has not created yet.  `user`
\* is the user of the closure that created the socket and that its handlers
\* see, `join` the userId of the join message sent over the socket (0: none)
NoBrowserSocket ==
    [readyState |-> "NONE", connectionId |-> 0, opened |-> FALSE, courseId |-> 0,
     user |-> 0, join |-> 0]

\* history: `pending` while the last thing that happened to the provider's
\* connection is a close nobody asked for, `at` the clock value of that close,
\* `closes` the number of such closes since the last successful open
NoClose == [pending |-> FALSE, at |-> 0, closes |-> 0]

\* clearInterval(pingIntervalRef.current); pingIntervalRef.current =
\* setInterval(...) of the open handler of socket b
SetPingInterval(p, b) ==
    [p EXCEPT !.pingTimers = (@ \ {p.pingIntervalRef}) \cup {b}, !.pingIntervalRef = b]

\* clearInterval(pingIntervalRef.current)
ClearPingInterval(p) ==
    [p EXCEPT !.pingTimers = @ \ {p.pingIntervalRef}, !.pingIntervalRef = 0]

\* part_007: the two delays of the reconnect backoff, in milliseconds
MAX_RECONNECT_DELAY == 30000
INITIAL_RECONNECT_DELAY == 1000

Min(a, b) == IF a <= b THEN a ELSE b

RECURSIVE Pow(_, _)
Pow(b, n) == IF n = 0 THEN 1 ELSE b * Pow(b, n - 1)

\* Math.min(INITIAL_RECONNECT_DELAY * Math.pow(1.5, reconnectAttempt),
\* MAX_RECONNECT_DELAY); setTimeout drops the fraction of a millisecond
ReconnectDelay(reconnectAttempt) ==
    Min((INITIAL_RECONNECT_DELAY * Pow(3, reconnectAttempt)) \div Pow(2, reconnectAttempt),
        MAX_RECONNECT_DELAY)

\* ------------------------------------------------------------- the calls
\* `order` is a history: the place of the call's last write to the store
\* among the writes of the calls that have not responded yet (0: none)
IdleCall ==
    [kind |-> "idle", pc |-> "idle", user |-> 0, status |-> 0,
     studentId |-> 0, points |-> 0, requestId |-> 0,
     request |-> <<>>, record |-> <<>>, closed |-> FALSE, count |-> 0,
     timestamp |-> 0, list |-> <<>>, records |-> {}, showHidden |-> FALSE,
     order |-> 0, bodyStudentId |-> 0]

NewCall(kind, user) == [IdleCall EXCEPT !.kind = kind, !.user = user]

\* res.status(code)...: the handler is over
Respond(call, code) == [call EXCEPT !.pc = "done", !.status = code]

\* broadcastToAll({type, payload: {id}})
Event(type, id) == [type |-> type, id |-> id]

\* the whole row of the user is put in the payload
StudentProfile_wholeRow(user) == user

\* student: {id: user.id, name: user.name, username: user.username}
StudentProfile(user) == [id |-> user.id, name |-> user.name, username |-> user.username]

\* broadcastToAll({type, payload: {...row, student: {id, name, username}}});
\* `id` is the payload's id
EventWithStudent(type, row, user) ==
    [type |-> type, id |-> row.id,
     payload |-> [student |-> StudentProfile(user)] @@ row]

\* the calls that have not responded yet
InFlight == {c \in Slots : calls[c].pc \notin {"idle", "done"}}

\* A response is the last thing a handler does.  The slot that holds it is
\* freed (Return) before any other step is taken, so that a response is
\* visible in exactly one state.
NoResponsePending == \A c \in Slots : calls[c].pc # "done"

\* call c is a handler of this kind waiting at this point
At(c, kind, pc) ==
    /\ NoResponsePending
    /\ calls[c].kind = kind
    /\ calls[c].pc = pc

\* a new invocation takes the lowest free slot
CanStart(c) ==
    /\ At(c, "idle", "idle")
    /\ \A d \in Slots : d < c => calls[d].kind # "idle"

\* a handler that goes on to change the store and publish is started only
\* while the log of published events has room for it
Budget == Len(published) + Cardinality(InFlight) < MaxEvents

\* the place of a write that happens now, after the writes of the calls in
\* flight
NextOrder ==
    LET orders == {calls[d].order : d \in Slots}
    IN  1 + CHOOSE m \in orders : \A n \in orders : n <= m

\* new Date(): the clock never runs backwards; t is the value read
ClockRead(t) == t \in now..MaxTime /\ t <= now + 1

\* the rows the tables hold when the server starts: either none, or one
\* raised hand of student A and one record of student A that an
\* administrator has hidden
InitialRequests ==
    << <<>>,
       <<[id |-> 1, studentId |-> StudentA, timestamp |-> 0, active |-> TRUE]>> >>

InitialRecords ==
    << {},
       {[id |-> 1, studentId |-> StudentA, points |-> 8, timestamp |-> 0, hidden |-> TRUE]} >>

RECURSIVE SumOfPoints(_)
SumOfPoints(rows) ==
    IF rows = {} THEN 0
    ELSE LET r == CHOOSE x \in rows : TRUE
         IN  r.points + SumOfPoints(rows \ {r})

Init ==
    /\ \E seeded \in 1..2 :
          /\ participationRequests = InitialRequests[seeded]
          /\ participationRecords = InitialRecords[seeded]
    /\ participationRecordCurrentId = Cardinality(participationRecords) + 1
    /\ now = 0
    /\ published = <<>>
    /\ calls = [c \in Slots |-> IdleCall]
    /\ awarded = [s \in Users |->
                    SumOfPoints({r \in participationRecords : r.studentId = s})]
    /\ wssClients = <<>>
    /\ sockets = [k \in ConnIds |-> NewSocket]
    /\ connectedClients = <<>>
    /\ provider = NewProvider
    /\ browserSockets = [b \in BrowserSocketIds |-> NoBrowserSocket]
    /\ clientClock = 0
    /\ lastClose = NoClose
    /\ dashboard = [requests |-> FetchRequests(participationRequests),
                    records |-> FetchRecords(participationRecords),
                    seen |-> 0, missed |-> FALSE]

\* ---------------------------------------- POST /api/participation-requests
\* role check, then `await storage.getActiveParticipationRequests()` and the
\* search for the caller's own active request
OpenRequestCheck(c, u, body) ==
    /\ CanStart(c)
    /\ LET call     == [NewCall("openRequest", u) EXCEPT
                            !.bodyStudentId = body.studentId]
           existing == FindExistingRequest(
                           getActiveParticipationRequests(participationRequests), u)
       IN  IF ensureAuthenticated(u) # 0
           THEN calls' = [calls EXCEPT ![c] = Respond(call, ensureAuthenticated(u))]
           ELSE IF users[u].role # "student"
           THEN calls' = [calls EXCEPT ![c] = Respond(call, 403)]
           ELSE IF existing # <<>>
           THEN calls' = [calls EXCEPT ![c] = Respond(call, 400)]
           ELSE /\ Budget
                /\ calls' = [calls EXCEPT ![c] =
                                [call EXCEPT !.pc = "create",
                                    !.studentId = RequestData(body, users[u]).studentId]]
    /\ UNCHANGED <<participationRequests, participationRecords,
                   participationRecordCurrentId, now, published, awarded>>
    /\ UNCHANGED <<channelVars, clientVars>>

\* storage.createParticipationRequest(requestData) is entered:
\* `const timestamp = new Date()`, and the INSERT is sent to the pool
OpenRequestCreate(c, t) ==
    /\ At(c, "openRequest", "create")
    /\ ClockRead(t)
    /\ now' = t
    /\ calls' = [calls EXCEPT ![c].pc = "insert", ![c].timestamp = t]
    /\ UNCHANGED <<participationRequests, participationRecords,
                   participationRecordCurrentId, published, awarded>>
    /\ UNCHANGED <<channelVars, clientVars>>

\* the INSERT is not awaited: the handler goes on with the row it expects
OpenRequestInsert_notAwaited(c) ==
    /\ At(c, "openRequest", "insert")
    /\ Len(participationRequests) < MaxRequests
    /\ calls' = [calls EXCEPT ![c].pc = "broadcast",
                              ![c].request = <<NewRequest(participationRequests,
                                                          calls[c].studentId,
                                                          calls[c].timestamp)>>]
    /\ UNCHANGED <<participationRequests, participationRecords,
                   participationRecordCurrentId, now, published, awarded>>
    /\ UNCHANGED <<channelVars, clientVars>>

\* the database runs the INSERT ... RETURNING * with the timestamp it was sent
OpenRequestInsert(c) ==
    /\ At(c, "openRequest", "insert")
    /\ Len(participationRequests) < MaxRequests
    /\ participationRequests' =
           createParticipationRequest(participationRequests, calls[c].studentId,
                                      calls[c].timestamp)
    /\ calls' = [calls EXCEPT ![c].pc = "broadcast",
                              ![c].order = NextOrder,
                              ![c].request = <<NewRequest(participationRequests,
                                                          calls[c].studentId,
                                                          calls[c].timestamp)>>]
    /\ UNCHANGED <<participationRecords, participationRecordCurrentId, now,
                   published, awarded>>
    /\ UNCHANGED <<channelVars, clientVars>>

\* broadcastToAll({type: "participationRequest", ...}); res.status(201).json(request)
OpenRequestBroadcast(c) ==
    /\ At(c, "openRequest", "broadcast")
    /\ published' = Append(published,
                           EventWithStudent("participationRequest", calls[c].request[1],
                                            users[calls[c].user]))
    /\ calls' = [calls EXCEPT ![c] = Respond(calls[c], 201)]
    /\ UNCHANGED <<participationRequests, participationRecords,
                   participationRecordCurrentId, now, awarded>>
    /\ sockets' = BroadcastEach(wssClients, sockets,
                              <<EventWithStudent("participationRequest",
                                                 calls[c].request[1],
                                                 users[calls[c].user])>>)
    /\ UNCHANGED <<wssClients, connectedClients, clientVars>>

\* ----------------------------------------- GET /api/participation-requests
\* `await storage.getActiveParticipationRequests()`; res.json(requests)
ListOpenRequests(c, u, list) ==
    /\ CanStart(c)
    /\ list \in OrderedByTimestamp(ActiveRows(participationRequests))
    /\ calls' = [calls EXCEPT ![c] =
                    Respond([NewCall("listOpenRequests", u) EXCEPT !.list = list], 200)]
    /\ UNCHANGED <<participationRequests, participationRecords,
                   participationRecordCurrentId, now, published, awarded>>
    /\ UNCHANGED <<channelVars, clientVars>>

\* ------------------------------------------ GET /api/participation-records
\* showHidden = req.query.showHidden === 'true'; the records of every student
\* for an administrator, the caller's own otherwise; without showHidden,
\* records.filter(record => !record.hidden), where a property the object
\* does not have reads as undefined
ListRecords(c, u, showHidden) ==
    /\ CanStart(c)
    /\ LET records == IF users[u].role = "admin"
                      THEN getAllParticipationRecords(participationRecords)
                      ELSE getParticipationRecordsByStudent(participationRecords, u)
           filteredRecords ==
               IF showHidden THEN records
               ELSE {record \in records :
                        ~("hidden" \in DOMAIN record /\ record["hidden"])}
       IN  calls' = [calls EXCEPT ![c] =
                        Respond([NewCall("listRecords", u) EXCEPT
                                    !.records = filteredRecords,
                                    !.showHidden = showHidden], 200)]
    /\ UNCHANGED <<participationRequests, participationRecords,
                   participationRecordCurrentId, now, published, awarded>>
    /\ UNCHANGED <<channelVars, clientVars>>

\* ----------------------------------- DELETE /api/participation-requests/:id
\* the ownership check is missing: any student may close any request
CloseRequestGet_noOwnerCheck(c, u, id) ==
    /\ CanStart(c)
    /\ LET call    == [NewCall("closeRequest", u) EXCEPT !.requestId = id]
           request == getParticipationRequestById(participationRequests, id)
       IN  IF ensureAuthenticated(u) # 0
           THEN calls' = [calls EXCEPT ![c] = Respond(call, ensureAuthenticated(u))]
           ELSE IF request = <<>>
           THEN calls' = [calls EXCEPT ![c] = Respond(call, 404)]
           ELSE /\ Budget
                /\ calls' = [calls EXCEPT ![c] = [call EXCEPT !.pc = "deactivate"]]
    /\ UNCHANGED <<participationRequests, participationRecords,
                   participationRecordCurrentId, now, published, awarded>>
    /\ UNCHANGED <<channelVars, clientVars>>

\* a request that is no longer active is answered with 404
CloseRequestGet_rejectInactive(c, u, id) ==
    /\ CanStart(c)
    /\ LET call    == [NewCall("closeRequest", u) EXCEPT !.requestId = id]
           request == getParticipationRequestById(participationRequests, id)
       IN  IF ensureAuthenticated(u) # 0
           THEN calls' = [calls EXCEPT ![c] = Respond(call, ensureAuthenticated(u))]
           ELSE IF request = <<>> \/ ~request[1].active
           THEN calls' = [calls EXCEPT ![c] = Respond(call, 404)]
           ELSE IF users[u].role = "student" /\ request[1].studentId # u
           THEN calls' = [calls EXCEPT ![c] = Respond(call, 403)]
           ELSE /\ Budget
                /\ calls' = [calls EXCEPT ![c] = [call EXCEPT !.pc = "deactivate"]]
    /\ UNCHANGED <<participationRequests, participationRecords,
                   participationRecordCurrentId, now, published, awarded>>
    /\ UNCHANGED <<channelVars, clientVars>>

\* `await storage.getParticipationRequestById(requestId)`, 404 and 403 checks
CloseRequestGet(c, u, id) ==
    /\ CanStart(c)
    /\ LET call    == [NewCall("closeRequest", u) EXCEPT !.requestId = id]
           request == getParticipationRequestById(participationRequests, id)
       IN  IF ensureAuthenticated(u) # 0
           THEN calls' = [calls EXCEPT ![c] = Respond(call, ensureAuthenticated(u))]
           ELSE IF request = <<>>
           THEN calls' = [calls EXCEPT ![c] = Respond(call, 404)]
           ELSE IF users[u].role = "student" /\ request[1].studentId # u
           THEN calls' = [calls EXCEPT ![c] = Respond(call, 403)]
           ELSE /\ Budget
                /\ calls' = [calls EXCEPT ![c] = [call EXCEPT !.pc = "deactivate"]]
    /\ UNCHANGED <<participationRequests, participationRecords,
                   participationRecordCurrentId, now, published, awarded>>
    /\ UNCHANGED <<channelVars, clientVars>>

\* `await storage.deactivateParticipationRequest(requestId)`
CloseRequestDeactivate(c) ==
    /\ At(c, "closeRequest", "deactivate")
    /\ participationRequests' =
           deactivateParticipationRequest(participationRequests, calls[c].requestId)
    /\ calls' = [calls EXCEPT ![c].pc = "broadcast",
                              ![c].order = NextOrder,
                              ![c].request = DeactivatedRow(participationRequests,
                                                            calls[c].requestId)]
    /\ UNCHANGED <<participationRecords, participationRecordCurrentId, now,
                   published, awarded>>
    /\ UNCHANGED <<channelVars, clientVars>>

\* broadcastToAll({type: "participationRequestDeactivated", ...}); res.json(updatedRequest)
CloseRequestBroadcast(c) ==
    /\ At(c, "closeRequest", "broadcast")
    /\ published' = Append(published,
                           Event("participationRequestDeactivated", calls[c].requestId))
    /\ calls' = [calls EXCEPT ![c] = Respond(calls[c], 200)]
    /\ UNCHANGED <<participationRequests, participationRecords,
                   participationRecordCurrentId, now, awarded>>
    /\ sockets' = BroadcastEach(wssClients, sockets,
                              <<Event("participationRequestDeactivated", calls[c].requestId)>>)
    /\ UNCHANGED <<wssClients, connectedClients, clientVars>>

\* ----------------------------------------- POST /api/participation-records
\* ensureAdmin, schema parse, then `await storage.getUser(recordData.studentId)`
AwardGetUser(c, u, body) ==
    /\ CanStart(c)
    /\ LET call    == [NewCall("awardPoints", u) EXCEPT !.studentId = body.studentId,
                           !.points = body.points, !.requestId = body.requestId]
           student == getUser(body.studentId)
       IN  IF ensureAdmin(u) # 0
           THEN calls' = [calls EXCEPT ![c] =
                             Respond(NewCall("awardPoints", u), ensureAdmin(u))]
           ELSE IF student = <<>> \/ student[1].role # "student"
           THEN calls' = [calls EXCEPT ![c] = Respond(call, 400)]
           ELSE /\ Budget
                /\ calls' = [calls EXCEPT ![c] = [call EXCEPT !.pc = "create"]]
    /\ UNCHANGED <<participationRequests, participationRecords,
                   participationRecordCurrentId, now, published, awarded>>
    /\ UNCHANGED <<channelVars, clientVars>>

\* `await storage.createParticipationRecord(recordData)`; `if (requestId)`
AwardCreate(c, t) ==
    /\ At(c, "awardPoints", "create")
    /\ ClockRead(t)
    /\ now' = t
    /\ participationRecords' =
           createParticipationRecord(participationRecords, participationRecordCurrentId,
                                     calls[c].studentId, calls[c].points, t)
    /\ participationRecordCurrentId' = participationRecordCurrentId + 1
    /\ awarded' = [awarded EXCEPT ![calls[c].studentId] = @ + calls[c].points]
    /\ calls' = [calls EXCEPT
           ![c].record = <<NewRecord(participationRecordCurrentId, calls[c].studentId,
                                     calls[c].points, t)>>,
           ![c].order = NextOrder,
           ![c].pc = IF calls[c].requestId # 0 THEN "getRequest" ELSE "broadcast"]
    /\ UNCHANGED <<participationRequests, published>>
    /\ UNCHANGED <<channelVars, clientVars>>

\* the test is inverted: `if (request && !request.active)`
IsActiveRequest_inverted(request) == request # <<>> /\ ~request[1].active

\* `if (request && request.active)`
IsActiveRequest(request) == request # <<>> /\ request[1].active

\* a linked request that is no longer active is answered with an error
AwardGetRequest_rejectClosed(c) ==
    /\ At(c, "awardPoints", "getRequest")
    /\ LET request == getParticipationRequestById(participationRequests,
                                                  calls[c].requestId)
       IN  calls' = [calls EXCEPT ![c] =
               IF IsActiveRequest(request)
               THEN [calls[c] EXCEPT !.request = request, !.pc = "deactivate"]
               ELSE IF request # <<>>
               THEN Respond([calls[c] EXCEPT !.request = request], 400)
               ELSE [calls[c] EXCEPT !.request = request, !.pc = "broadcast"]]
    /\ UNCHANGED <<participationRequests, participationRecords,
                   participationRecordCurrentId, now, published, awarded>>
    /\ UNCHANGED <<channelVars, clientVars>>

\* `await storage.getParticipationRequestById(requestId)`
AwardGetRequest(c) ==
    /\ At(c, "awardPoints", "getRequest")
    /\ LET request == getParticipationRequestById(participationRequests,
                                                  calls[c].requestId)
       IN  calls' = [calls EXCEPT ![c].request = request,
               ![c].pc = IF IsActiveRequest(request) THEN "deactivate" ELSE "broadcast"]
    /\ UNCHANGED <<participationRequests, participationRecords,
                   participationRecordCurrentId, now, published, awarded>>
    /\ UNCHANGED <<channelVars, clientVars>>

\* `await storage.deactivateParticipationRequest(requestId)`
AwardDeactivate(c) ==
    /\ At(c, "awardPoints", "deactivate")
    /\ participationRequests' =
           deactivateParticipationRequest(participationRequests, calls[c].requestId)
    /\ calls' = [calls EXCEPT ![c].pc = "broadcast", ![c].closed = TRUE,
                              ![c].order = NextOrder]
    /\ UNCHANGED <<participationRecords, participationRecordCurrentId, now,
                   published, awarded>>
    /\ UNCHANGED <<channelVars, clientVars>>

\* the messages of the handler's synchronous tail: the deactivation, if this
\* call did it, then the new record
AwardEvents(call) ==
    (IF call.closed
        THEN <<Event("participationRequestDeactivated", call.requestId)>> ELSE <<>>)
    \o <<EventWithStudent("participationRecordCreated", call.record[1],
                          getUser(call.studentId)[1])>>

\* the broadcasts; res.status(201).json(record)
AwardBroadcast(c) ==
    /\ At(c, "awardPoints", "broadcast")
    /\ published' = published \o AwardEvents(calls[c])
    /\ calls' = [calls EXCEPT ![c] = Respond(calls[c], 201)]
    /\ UNCHANGED <<participationRequests, participationRecords,
                   participationRecordCurrentId, now, awarded>>
    /\ sockets' = BroadcastEach(wssClients, sockets,
                              AwardEvents(calls[c]))
    /\ UNCHANGED <<wssClients, connectedClients, clientVars>>

\* ---------------------------------- DELETE /api/participation-records/today
\* ensureAdmin; today = new Date() at midnight;
\* `await storage.deleteParticipationRecordsFromDate(today)`
DeleteTodayDelete(c, u, t) ==
    /\ CanStart(c)
    /\ ClockRead(t)
    /\ LET call  == NewCall("deleteToday", u)
           today == StartOfDay(t)
       IN  IF ensureAdmin(u) # 0
           THEN /\ calls' = [calls EXCEPT ![c] = Respond(call, ensureAdmin(u))]
                /\ UNCHANGED <<participationRecords, now>>
                /\ t = now
           ELSE /\ Budget
                /\ now' = t
                /\ participationRecords' =
                       deleteParticipationRecordsFromDate(participationRecords, today)
                /\ calls' = [calls EXCEPT ![c] = [call EXCEPT !.pc = "broadcast",
                       !.order = NextOrder,
                       !.count = Cardinality(RecordsFromDate(participationRecords, today))]]
    /\ UNCHANGED <<participationRequests, participationRecordCurrentId,
                   published, awarded>>
    /\ UNCHANGED <<channelVars, clientVars>>

\* broadcastToAll({type: "participationRecordsDeleted", ...}); res.json({count})
DeleteTodayBroadcast(c) ==
    /\ At(c, "deleteToday", "broadcast")
    /\ published' = Append(published, Event("participationRecordsDeleted", 0))
    /\ calls' = [calls EXCEPT ![c] = Respond(calls[c], 200)]
    /\ UNCHANGED <<participationRequests, participationRecords,
                   participationRecordCurrentId, now, awarded>>
    /\ sockets' = BroadcastEach(wssClients, sockets,
                              <<Event("participationRecordsDeleted", 0)>>)
    /\ UNCHANGED <<wssClients, connectedClients, clientVars>>

\* -------------------------------- GET /api/students/:id/participation-points
\* ownership check, then `await storage.getTotalParticipationPointsByStudent(studentId)`
GetPoints(c, u, studentId) ==
    /\ CanStart(c)
    /\ LET call == [NewCall("getPoints", u) EXCEPT !.studentId = studentId]
       IN  calls' = [calls EXCEPT ![c] =
               IF users[u].role = "student" /\ u # studentId THEN Respond(call, 403)
               ELSE [Respond(call, 200) EXCEPT !.points =
                        getTotalParticipationPointsByStudent(participationRecords,
                                                             studentId)]]
    /\ UNCHANGED <<participationRequests, participationRecords,
                   participationRecordCurrentId, now, published, awarded>>
    /\ UNCHANGED <<channelVars, clientVars>>

\* -------------------------------------------------------------- environment
\* the response has reached the client: the slot is free again
Return(c) ==
    /\ calls[c].pc = "done"
    /\ calls' = [calls EXCEPT ![c] = IdleCall]
    /\ UNCHANGED <<participationRequests, participationRecords,
                   participationRecordCurrentId, now, published, awarded>>
    /\ UNCHANGED <<channelVars, clientVars>>

\* ------------------------------------------------ the WebSocket server
\* wss.on("connection"): the socket is in wss.clients and OPEN, and the
\* welcome message is sent inside try/catch.  `throws` tells whether this
\* socket's send throws.
WsConnection(k, throws) ==
    /\ sockets[k].readyState = "CONNECTING"
    /\ \A j \in ConnIds : j < k => sockets[j].readyState # "CONNECTING"
    /\ wssClients' = Append(wssClients, k)
    /\ sockets' = [sockets EXCEPT ![k] =
                      Send([@ EXCEPT !.readyState = "OPEN", !.sendThrows = throws],
                           Welcome)]
    /\ UNCHANGED <<connectedClients, httpVars, clientVars>>

\* the socket with the handler's `userId` set and the confirmation sent
Joined(socket, userId) ==
    Send([socket EXCEPT !.userId = userId], JoinConfirmed(userId))

\* ws.on("message"): ping is answered with pong; join assigns the handler's
\* userId, and unless it is missing registers the socket and confirms; a
\* join without payload throws inside the try and changes nothing
WsMessage(k, message) ==
    /\ sockets[k].readyState = "OPEN"
    /\ Len(sockets[k].received) < MaxReceived
    /\ IF message.type = "ping"
       THEN /\ sockets' = [sockets EXCEPT ![k] = Send(@, Pong)]
            /\ UNCHANGED connectedClients
       ELSE IF message.type = "join" /\ message.payload # <<>>
       THEN LET userId == message.payload[1].userId
            IN  IF userId = 0
                THEN /\ sockets' = [sockets EXCEPT ![k].userId = 0]
                     /\ UNCHANGED connectedClients
                ELSE /\ connectedClients' = RegistryAdd(connectedClients, userId, k)
                     /\ sockets' = [sockets EXCEPT ![k] = Joined(@, userId)]
       ELSE UNCHANGED <<sockets, connectedClients>>
    /\ UNCHANGED <<wssClients, httpVars, clientVars>>

\* the peer starts the closing handshake, or the transport is half-closed
WsClosing(k) ==
    /\ sockets[k].readyState = "OPEN"
    /\ sockets' = [sockets EXCEPT ![k].readyState = "CLOSING"]
    /\ UNCHANGED <<wssClients, connectedClients, httpVars, clientVars>>

\* wss.clients without socket k
WithoutClient(clients, k) == SelectSeq(clients, LAMBDA j : j # k)

\* ws.on("close"): `if (userId)` the socket leaves that user's set
RegistryOnClose(registry, userId, k) ==
    IF userId # 0 THEN RegistryDelete(registry, userId, k) ELSE registry

\* the close handler also lowers the hand of the connection's user
WsClose_lowersHand(k) ==
    /\ sockets[k].readyState \in {"OPEN", "CLOSING"}
    /\ sockets' = [sockets EXCEPT ![k].readyState = "CLOSED"]
    /\ wssClients' = WithoutClient(wssClients, k)
    /\ connectedClients' = RegistryOnClose(connectedClients, sockets[k].userId, k)
    /\ participationRequests' =
           [i \in DOMAIN participationRequests |->
               IF participationRequests[i].studentId = sockets[k].userId
               THEN [participationRequests[i] EXCEPT !.active = FALSE]
               ELSE participationRequests[i]]
    /\ UNCHANGED <<participationRecords, participationRecordCurrentId, now,
                   published, calls, awarded, clientVars>>

\* the connection is closed, gracefully (after CLOSING) or abnormally: the
\* socket leaves wss.clients and the close handler runs
WsClose(k) ==
    /\ sockets[k].readyState \in {"OPEN", "CLOSING"}
    /\ sockets' = [sockets EXCEPT ![k].readyState = "CLOSED"]
    /\ wssClients' = WithoutClient(wssClients, k)
    /\ connectedClients' = RegistryOnClose(connectedClients, sockets[k].userId, k)
    /\ UNCHANGED <<httpVars, clientVars>>

Next ==
    \/ \E c \in Slots, u \in AnyCaller, body \in OpenRequestBodies :
          OpenRequestCheck(c, u, body)
    \/ \E c \in Slots, t \in 0..MaxTime : OpenRequestCreate(c, t)
    \/ \E c \in Slots : OpenRequestInsert(c)
    \/ \E c \in Slots : OpenRequestBroadcast(c)
    \/ \E c \in Slots, u \in ListCallers :
          \E list \in OrderedByTimestamp(ActiveRows(participationRequests)) :
              ListOpenRequests(c, u, list)
    \/ \E c \in Slots, u \in AnyCaller, id \in 1..(MaxRequests + 1) :
          CloseRequestGet(c, u, id)
    \/ \E c \in Slots : CloseRequestDeactivate(c)
    \/ \E c \in Slots : CloseRequestBroadcast(c)
    \/ \E c \in Slots, u \in AnyAdminRouteCaller, body \in AwardBodies :
          AwardGetUser(c, u, body)
    \/ \E c \in Slots, t \in 0..MaxTime : AwardCreate(c, t)
    \/ \E c \in Slots : AwardGetRequest(c)
    \/ \E c \in Slots : AwardDeactivate(c)
    \/ \E c \in Slots : AwardBroadcast(c)
    \/ \E c \in Slots, u \in AnyAdminRouteCaller, t \in 0..MaxTime :
          DeleteTodayDelete(c, u, t)
    \/ \E c \in Slots : DeleteTodayBroadcast(c)
    \/ \E c \in Slots, q \in PointsQueries : GetPoints(c, q[1], q[2])
    \/ \E c \in Slots, u \in ListCallers, showHidden \in BOOLEAN :
          ListRecords(c, u, showHidden)
    \/ \E c \in Slots : Return(c)

Spec == Init /\ [][Next]_vars

\* wss.clients.forEach(client => { if (client.readyState !== WebSocket.OPEN)
\*   try { client.terminate() } catch {} }): terminate() destroys the
\* transport, after which the socket's close event follows
SweepClients(clients, socks) ==
    [k \in DOMAIN socks |->
        IF (\E i \in DOMAIN clients : clients[i] = k) /\ socks[k].readyState # "OPEN"
        THEN [socks[k] EXCEPT !.terminated = TRUE]
        ELSE socks[k]]

\* setInterval(..., 60000): the check of the connections
Sweep ==
    /\ sockets' = SweepClients(wssClients, sockets)
    /\ UNCHANGED <<wssClients, connectedClients, httpVars, clientVars>>

\* ---- the registry: connections that join and close, no HTTP traffic
NextRegistry ==
    \/ \E k \in ConnIds, throws \in BOOLEAN : WsConnection(k, throws)
    \/ \E k \in ConnIds, message \in ClientMessages : WsMessage(k, message)
    \/ \E k \in ConnIds : WsClosing(k)
    \/ \E k \in ConnIds : WsClose(k)
    \/ Sweep

SpecRegistry == Init /\ [][NextRegistry]_vars

\* the same steps under the scheduling the server has: the interval timer
\* keeps firing, and a socket that was destroyed gets its close event
SpecSweep ==
    /\ Init /\ [][NextRegistry]_vars
    /\ WF_vars(Sweep)
    /\ \A k \in ConnIds : WF_vars(sockets[k].terminated /\ WsClose(k))

\* ---- the fan-out: connections that come and go while the handlers that
\* broadcast run one after the other.  broadcastToAll walks wss.clients and
\* never looks at connectedClients, so the tabs of a user are connections
\* like any other and the join messages are left to SpecRegistry
FanOutSlots == {1}

NextFanOut ==
    \/ \E k \in ConnIds, throws \in BOOLEAN : WsConnection(k, throws)
    \/ \E k \in ConnIds : WsClosing(k)
    \/ \E k \in ConnIds : WsClose(k)
    \/ \E c \in FanOutSlots, u \in Users : OpenRequestCheck(c, u, NoBody)
    \/ \E c \in FanOutSlots, t \in 0..MaxTime : OpenRequestCreate(c, t)
    \/ \E c \in FanOutSlots : OpenRequestInsert(c)
    \/ \E c \in FanOutSlots : OpenRequestBroadcast(c)
    \/ \E c \in FanOutSlots, u \in Users, id \in 1..(MaxRequests + 1) :
          CloseRequestGet(c, u, id)
    \/ \E c \in FanOutSlots : CloseRequestDeactivate(c)
    \/ \E c \in FanOutSlots : CloseRequestBroadcast(c)
    \/ \E c \in FanOutSlots, u \in AdminRouteCallers, body \in AwardBodies :
          AwardGetUser(c, u, body)
    \/ \E c \in FanOutSlots, t \in 0..MaxTime : AwardCreate(c, t)
    \/ \E c \in FanOutSlots : AwardGetRequest(c)
    \/ \E c \in FanOutSlots : AwardDeactivate(c)
    \/ \E c \in FanOutSlots : AwardBroadcast(c)
    \/ \E c \in FanOutSlots, u \in AdminRouteCallers, t \in 0..MaxTime :
          DeleteTodayDelete(c, u, t)
    \/ \E c \in FanOutSlots : DeleteTodayBroadcast(c)
    \/ \E c \in FanOutSlots : Return(c)

SpecFanOut == Init /\ [][NextFanOut]_vars

\* ---- the handlers beside a store that can fail
\* pool.query rejects inside getParticipationRequestById or
\* deactivateParticipationRequest of an award; the handler's catch answers
\* res.status(500)
AwardStoreFails(c) ==
    /\ participationRecordCurrentId <= MaxFailedRecordId
    /\ \/ At(c, "awardPoints", "getRequest")
       \/ At(c, "awardPoints", "deactivate")
    /\ calls' = [calls EXCEPT ![c] = Respond(calls[c], 500)]
    /\ UNCHANGED <<participationRequests, participationRecords,
                   participationRecordCurrentId, now, published, awarded>>
    /\ UNCHANGED <<channelVars, clientVars>>

\* awards, one after the other, beside students who raise their hands
NextStoreFails ==
    \/ \E c \in FanOutSlots, u \in AnyAdminRouteCaller, body \in AwardBodies :
          AwardGetUser(c, u, body)
    \/ \E c \in FanOutSlots, t \in 0..MaxTime : AwardCreate(c, t)
    \/ \E c \in FanOutSlots : AwardGetRequest(c)
    \/ \E c \in FanOutSlots : AwardDeactivate(c)
    \/ \E c \in FanOutSlots : AwardBroadcast(c)
    \/ \E c \in FanOutSlots : AwardStoreFails(c)
    \/ \E c \in FanOutSlots, u \in Users : OpenRequestCheck(c, u, NoBody)
    \/ \E c \in FanOutSlots, t \in 0..MaxTime : OpenRequestCreate(c, t)
    \/ \E c \in FanOutSlots : OpenRequestInsert(c)
    \/ \E c \in FanOutSlots : OpenRequestBroadcast(c)
    \/ \E c \in FanOutSlots : Return(c)

SpecStoreFails == Init /\ [][NextStoreFails]_vars

\* ---- the channel beside the store: connections that join, ping, close and
\* are swept while a student raises and lowers a hand and an instructor
\* awards points and deletes the day's records, one call after the other
NextChannel ==
    \/ \E k \in ConnIds : WsConnection(k, FALSE)
    \/ \E k \in ConnIds, message \in {Ping, Join(StudentA)} : WsMessage(k, message)
    \/ \E k \in ConnIds : WsClosing(k)
    \/ \E k \in ConnIds : WsClose(k)
    \/ Sweep
    \/ \E c \in FanOutSlots : OpenRequestCheck(c, StudentA, NoBody)
    \/ \E c \in FanOutSlots, t \in 0..MaxTime : OpenRequestCreate(c, t)
    \/ \E c \in FanOutSlots : OpenRequestInsert(c)
    \/ \E c \in FanOutSlots : OpenRequestBroadcast(c)
    \/ \E c \in FanOutSlots : CloseRequestGet(c, StudentA, 1)
    \/ \E c \in FanOutSlots : CloseRequestDeactivate(c)
    \/ \E c \in FanOutSlots : CloseRequestBroadcast(c)
    \/ \E c \in FanOutSlots :
          AwardGetUser(c, AdminId, [studentId |-> StudentA, points |-> 8, requestId |-> 1])
    \/ \E c \in FanOutSlots, t \in 0..MaxTime : AwardCreate(c, t)
    \/ \E c \in FanOutSlots : AwardGetRequest(c)
    \/ \E c \in FanOutSlots : AwardDeactivate(c)
    \/ \E c \in FanOutSlots : AwardBroadcast(c)
    \/ \E c \in FanOutSlots, t \in 0..MaxTime : DeleteTodayDelete(c, AdminId, t)
    \/ \E c \in FanOutSlots : DeleteTodayBroadcast(c)
    \/ \E c \in FanOutSlots : Return(c)

SpecChannel == Init /\ [][NextChannel]_vars

\* ------------------------- the WebSocket client: WebSocketProvider (part_007)
\* the same user stays logged in except under SpecLogin.
\* the WebSocket object the next `new WebSocket(wsUrl)` returns
FreeSocket(socks) ==
    CHOOSE b \in BrowserSocketIds :
        /\ socks[b].readyState = "NONE"
        /\ \A a \in BrowserSocketIds : a < b => socks[a].readyState # "NONE"

\* socket.close(): a socket that is CONNECTING or OPEN starts closing; its
\* close event comes later
CloseCalled(socket) ==
    IF socket.readyState \in {"CONNECTING", "OPEN"}
    THEN [socket EXCEPT !.readyState = "CLOSING"]
    ELSE socket

\* the second early return taken whenever webSocketRef holds a socket
PassesGuards_unlessSocket(p, socks, closureConnecting, closureUser) ==
    /\ ~p.isUnmountingRef
    /\ closureUser # 0
    /\ ~closureConnecting
    /\ ~(p.webSocketRef # 0)

\* createWebSocket gets past its two early returns; closureConnecting and
\* closureUser are the `connecting` and the `user` of the render that made the
\* callback (closureUser is the user's id, 0 for no user)
PassesGuards(p, socks, closureConnecting, closureUser) ==
    /\ ~p.isUnmountingRef
    /\ closureUser # 0
    /\ ~closureConnecting
    /\ ~(p.webSocketRef # 0 /\ socks[p.webSocketRef].readyState = "OPEN")

\* a call of createWebSocket is modelled only while a WebSocket object and a
\* connection id are left for it
CanCreate(p, socks, closureConnecting, closureUser) ==
    PassesGuards(p, socks, closureConnecting, closureUser)
      => /\ \E b \in BrowserSocketIds : socks[b].readyState = "NONE"
         /\ p.connectionIdRef < MaxConnectionId

\* createWebSocket() that leaves the existing socket as it is
createWebSocket_keepsPrevious(p, socks, closureConnecting, closureUser) ==
    IF ~PassesGuards(p, socks, closureConnecting, closureUser) THEN <<p, socks>>
    ELSE LET connectionId == p.connectionIdRef + 1
             socket       == FreeSocket(socks)
         IN  << [p EXCEPT !.connecting = TRUE,
                          !.connectionIdRef = connectionId,
                          !.webSocketRef = socket],
                [socks EXCEPT ![socket] =
                    [readyState |-> "CONNECTING", connectionId |-> connectionId,
                     opened |-> FALSE, courseId |-> 0,
                     user |-> closureUser, join |-> 0]] >>

\* createWebSocket(): the provider and the sockets after the call
createWebSocket(p, socks, closureConnecting, closureUser) ==
    IF ~PassesGuards(p, socks, closureConnecting, closureUser) THEN <<p, socks>>
    ELSE LET connectionId == p.connectionIdRef + 1
             socket       == FreeSocket(socks)
             closed       == IF p.webSocketRef # 0
                             THEN [socks EXCEPT ![p.webSocketRef] = CloseCalled(@)]
                             ELSE socks
         IN  << [p EXCEPT !.connecting = TRUE,
                          !.connectionIdRef = connectionId,
                          !.webSocketRef = socket],
                [closed EXCEPT ![socket] =
                    [readyState |-> "CONNECTING", connectionId |-> connectionId,
                     opened |-> FALSE, courseId |-> 0,
                     user |-> closureUser, join |-> 0]] >>

\* connect(): nothing without a user; the attempts are reset, then
\* createWebSocket()
connect(p, socks, closureConnecting, closureUser) ==
    IF closureUser = 0 THEN <<p, socks>>
    ELSE createWebSocket([p EXCEPT !.reconnectAttemptsRef = 0], socks,
                         closureConnecting, closureUser)

\* the effect "connect when user changes" of the render that has just
\* committed: connect() unless connected or connecting
ConnectEffect(p, socks) ==
    IF p.rendered.user # 0 /\ ~p.rendered.connected /\ ~p.rendered.connecting
    THEN connect(p, socks, p.rendered.connecting, p.rendered.user)
    ELSE <<p, socks>>

\* the step creates a WebSocket object
SocketCreated ==
    \E b \in BrowserSocketIds :
        browserSockets[b].readyState = "NONE" /\ browserSockets'[b].readyState # "NONE"

\* the history of closes after a step that took the provider from p to q:
\* a connection attempt ends the wait that a close began
CloseHistory(p, q) ==
    IF q.connectionIdRef # p.connectionIdRef
    THEN [lastClose EXCEPT !.pending = FALSE]
    ELSE lastClose

\* the provider is rendered for the first time and its effects run
Mount ==
    /\ ~provider.mounted
    /\ LET p == [provider EXCEPT !.mounted = TRUE,
                     !.rendered = [connected |-> provider.connected,
                                   connecting |-> provider.connecting,
                                   user |-> provider.user]]
       IN  /\ CanCreate(p, browserSockets, p.rendered.connecting, p.rendered.user)
           /\ provider' = ConnectEffect(p, browserSockets)[1]
           /\ browserSockets' = ConnectEffect(p, browserSockets)[2]
    /\ lastClose' = CloseHistory(provider, provider')
    /\ UNCHANGED <<clientClock, httpVars, channelVars, dashboard>>

\* a state change is rendered; the effect runs because `connected` or
\* `connecting` is among its dependencies
Render ==
    /\ provider.mounted
    /\ ~provider.isUnmountingRef
    /\ provider.rendered # [connected |-> provider.connected,
                            connecting |-> provider.connecting,
                            user |-> provider.user]
    /\ LET p == [provider EXCEPT
                     !.rendered = [connected |-> provider.connected,
                                   connecting |-> provider.connecting,
                                   user |-> provider.user]]
       IN  /\ CanCreate(p, browserSockets, p.rendered.connecting, p.rendered.user)
           /\ provider' = ConnectEffect(p, browserSockets)[1]
           /\ browserSockets' = ConnectEffect(p, browserSockets)[2]
    /\ lastClose' = CloseHistory(provider, provider')
    /\ UNCHANGED <<clientClock, httpVars, channelVars, dashboard>>

\* the socket's open event.  The event of a socket whose close() was called
\* while it was CONNECTING may already be on its way: the socket stays CLOSING.
\* A stale connection is closed and otherwise ignored; the current one
\* sends the join message with the id of the closure's user.
SocketOpen(b) ==
    /\ ~browserSockets[b].opened
    /\ browserSockets[b].readyState \in {"CONNECTING", "CLOSING"}
    /\ LET opened == [browserSockets[b] EXCEPT
                         !.opened = TRUE,
                         !.readyState = IF @ = "CONNECTING" THEN "OPEN" ELSE @]
       IN  IF opened.connectionId # provider.connectionIdRef
           THEN /\ browserSockets' = [browserSockets EXCEPT ![b] = CloseCalled(opened)]
                /\ UNCHANGED <<provider, lastClose>>
           ELSE /\ browserSockets' =
                      [browserSockets EXCEPT ![b] = [opened EXCEPT !.join = opened.user]]
                /\ provider' = [SetPingInterval(provider, b) EXCEPT
                                    !.connected = TRUE,
                                    !.connecting = FALSE,
                                    !.reconnectAttemptsRef = 0]
                /\ lastClose' = NoClose
    /\ UNCHANGED <<clientClock, httpVars, channelVars, dashboard>>

\* the socket's close event: the connection failed, was lost, or its closing
\* handshake is over.  The handler returns while unmounting and for a stale
\* connection; otherwise it schedules the reconnect.
SocketClose(b) ==
    /\ browserSockets[b].readyState \in {"CONNECTING", "OPEN", "CLOSING"}
    /\ browserSockets' = [browserSockets EXCEPT ![b].readyState = "CLOSED"]
    /\ IF \/ provider.isUnmountingRef
          \/ browserSockets[b].connectionId # provider.connectionIdRef
       THEN UNCHANGED <<provider, lastClose>>
       ELSE LET reconnectAttempt == provider.reconnectAttemptsRef
            IN  /\ provider' =
                      [ClearPingInterval(provider) EXCEPT
                          !.connected = FALSE,
                          !.connecting = FALSE,
                          !.reconnectAttemptsRef = reconnectAttempt + 1,
                          !.reconnectTimeoutRef =
                              clientClock + ReconnectDelay(reconnectAttempt),
                          !.timerUser = browserSockets[b].user]
                /\ lastClose' = [pending |-> TRUE, at |-> clientClock,
                                 closes |-> lastClose.closes + 1]
    /\ UNCHANGED <<clientClock, httpVars, channelVars, dashboard>>

\* the reconnect timer fires: createWebSocket() of the render that made the
\* socket whose close set the timer; that callback got past `if (connecting`,
\* so its `connecting` is false, and its `user` is the user of that render
TimerFires ==
    /\ provider.reconnectTimeoutRef >= 0
    /\ clientClock >= provider.reconnectTimeoutRef
    /\ LET p == [provider EXCEPT !.reconnectTimeoutRef = -1]
       IN  /\ CanCreate(p, browserSockets, FALSE, p.timerUser)
           /\ provider' = createWebSocket(p, browserSockets, FALSE, p.timerUser)[1]
           /\ browserSockets' = createWebSocket(p, browserSockets, FALSE, p.timerUser)[2]
    /\ lastClose' = CloseHistory(provider, provider')
    /\ UNCHANGED <<clientClock, httpVars, channelVars, dashboard>>

\* time passes in the browser
Tick ==
    /\ clientClock + TickStep <= MaxClock
    /\ clientClock' = clientClock + TickStep
    /\ UNCHANGED <<provider, browserSockets, lastClose, httpVars, channelVars, dashboard>>

\* disconnect(): the connection id moves on, the socket is closed and
\* forgotten, both timers are cleared
Disconnect ==
    /\ provider.mounted
    /\ provider.connectionIdRef < MaxConnectionId
    /\ provider' = [ClearPingInterval(provider) EXCEPT
                        !.disconnected = TRUE,
                        !.connectionIdRef = @ + 1,
                        !.webSocketRef = 0,
                        !.reconnectTimeoutRef = -1,
                        !.connected = FALSE,
                        !.connecting = FALSE]
    /\ browserSockets' =
          IF provider.webSocketRef # 0
          THEN [browserSockets EXCEPT ![provider.webSocketRef] = CloseCalled(@)]
          ELSE browserSockets
    /\ lastClose' = [lastClose EXCEPT !.pending = FALSE]
    /\ UNCHANGED <<clientClock, httpVars, channelVars, dashboard>>

NextClient ==
    \/ Mount
    \/ Render
    \/ \E b \in BrowserSocketIds : SocketOpen(b)
    \/ \E b \in BrowserSocketIds : SocketClose(b)
    \/ TimerFires
    \/ Tick
    \/ Disconnect

SpecClient == Init /\ [][NextClient]_vars

\* the provider left to itself: no component calls disconnect().  The current
\* connection is lost only while a WebSocket object and a connection id are
\* left and the clock can still reach the time the reconnect timer is due
CanReconnect ==
    /\ \E b \in BrowserSocketIds : browserSockets[b].readyState = "NONE"
    /\ provider.connectionIdRef < MaxConnectionId
    /\ clientClock + ReconnectDelay(provider.reconnectAttemptsRef)
          <= clientClock + ((MaxClock - clientClock) \div TickStep) * TickStep

NextReconnect ==
    \/ Mount
    \/ Render
    \/ \E b \in BrowserSocketIds : SocketOpen(b)
    \/ \E b \in BrowserSocketIds :
          /\ browserSockets[b].connectionId = provider.connectionIdRef => CanReconnect
          /\ SocketClose(b)
    \/ TimerFires
    \/ Tick

\* React renders a state change, the browser's clock advances and a timer
\* that is due fires; nothing obliges a socket to open or to close
SpecReconnect ==
    /\ Init
    /\ [][NextReconnect]_vars
    /\ WF_vars(Mount)
    /\ WF_vars(Render)
    /\ WF_vars(TimerFires)
    /\ WF_vars(Tick)

\* the user useAuth returns changes: the provider renders with the new user
\* and the effect "connect when user changes" runs
UserChanges(user) ==
    /\ provider.mounted
    /\ ~provider.isUnmountingRef
    /\ LET p == [provider EXCEPT
                     !.user = user,
                     !.rendered = [connected |-> provider.connected,
                                   connecting |-> provider.connecting,
                                   user |-> user]]
       IN  /\ CanCreate(p, browserSockets, p.rendered.connecting, p.rendered.user)
           /\ provider' = ConnectEffect(p, browserSockets)[1]
           /\ browserSockets' = ConnectEffect(p, browserSockets)[2]
    /\ lastClose' = CloseHistory(provider, provider')
    /\ UNCHANGED <<clientClock, httpVars, channelVars, dashboard>>

\* the user logs out
Logout ==
    /\ provider.user # 0
    /\ UserChanges(0)

\* a user logs in
Login(user) ==
    /\ provider.user = 0
    /\ UserChanges(user)

\* the provider while users log out and in
NextLogin ==
    \/ Mount
    \/ Render
    \/ \E b \in BrowserSocketIds : SocketOpen(b)
    \/ \E b \in BrowserSocketIds : SocketClose(b)
    \/ TimerFires
    \/ Tick
    \/ Logout
    \/ \E user \in {StudentA, StudentB} : Login(user)

SpecLogin == Init /\ [][NextLogin]_vars

\* ------------- the WebSocket client: WebSocketProvider (lib/websocket.tsx)
\* this provider connects per course and keeps no connection id; the model
\* numbers its connections in connectionIdRef, a history the code never reads
CourseIds == {1}

\* setTimeout(..., 3000) of the close handler
CourseReconnectDelay == 3000

\* createWebSocket(courseId): the existing socket is closed but stays in
\* webSocketRef until the new one replaces it
CourseCreateWebSocket(p, socks, courseId) ==
    LET socket == FreeSocket(socks)
        closed == IF p.webSocketRef # 0
                  THEN [socks EXCEPT ![p.webSocketRef] = CloseCalled(@)]
                  ELSE socks
    IN  << [p EXCEPT !.webSocketRef = socket, !.connectionIdRef = @ + 1],
           [closed EXCEPT ![socket] =
               [readyState |-> "CONNECTING", connectionId |-> p.connectionIdRef + 1,
                opened |-> FALSE, courseId |-> courseId,
                user |-> p.user, join |-> 0]] >>

\* a component calls connect(courseId)
CourseConnect(courseId) ==
    /\ \E b \in BrowserSocketIds : browserSockets[b].readyState = "NONE"
    /\ LET p == [provider EXCEPT !.courseIdRef = courseId, !.disconnected = FALSE]
       IN  /\ provider' = CourseCreateWebSocket(p, browserSockets, courseId)[1]
           /\ browserSockets' = CourseCreateWebSocket(p, browserSockets, courseId)[2]
    /\ UNCHANGED <<clientClock, lastClose, httpVars, channelVars, dashboard>>

\* the socket's open event (of a socket whose close() was called while it was
\* CONNECTING the event may already be on its way)
CourseSocketOpen(b) ==
    /\ ~browserSockets[b].opened
    /\ browserSockets[b].readyState \in {"CONNECTING", "CLOSING"}
    /\ browserSockets' = [browserSockets EXCEPT
                             ![b].opened = TRUE,
                             ![b].join = IF browserSockets[b].readyState = "CONNECTING"
                                         THEN browserSockets[b].user ELSE @,
                             ![b].readyState = IF @ = "CONNECTING" THEN "OPEN" ELSE @]
    /\ provider' = [SetPingInterval(provider, b) EXCEPT
                        !.connected = TRUE,
                        !.courseIdRef = browserSockets[b].courseId]
    /\ UNCHANGED <<clientClock, lastClose, httpVars, channelVars, dashboard>>

\* the socket's close event
CourseSocketClose(b) ==
    /\ browserSockets[b].readyState \in {"CONNECTING", "OPEN", "CLOSING"}
    /\ browserSockets' = [browserSockets EXCEPT ![b].readyState = "CLOSED"]
    /\ provider' = [ClearPingInterval(provider) EXCEPT
                       !.connected = FALSE,
                       !.reconnectTimeoutRef =
                           IF provider.courseIdRef # 0
                           THEN clientClock + CourseReconnectDelay
                           ELSE @]
    /\ UNCHANGED <<clientClock, lastClose, httpVars, channelVars, dashboard>>

\* the reconnect timer fires: createWebSocket(courseIdRef.current)
CourseTimerFires ==
    /\ provider.reconnectTimeoutRef >= 0
    /\ clientClock >= provider.reconnectTimeoutRef
    /\ \E b \in BrowserSocketIds : browserSockets[b].readyState = "NONE"
    /\ LET p == [provider EXCEPT !.reconnectTimeoutRef = -1]
       IN  /\ provider' = CourseCreateWebSocket(p, browserSockets, p.courseIdRef)[1]
           /\ browserSockets' = CourseCreateWebSocket(p, browserSockets, p.courseIdRef)[2]
    /\ UNCHANGED <<clientClock, lastClose, httpVars, channelVars, dashboard>>

\* disconnect()
CourseDisconnect ==
    /\ provider' = [ClearPingInterval(provider) EXCEPT
                        !.disconnected = TRUE,
                        !.webSocketRef = 0,
                        !.reconnectTimeoutRef = -1,
                        !.courseIdRef = 0,
                        !.connected = FALSE]
    /\ browserSockets' =
          IF provider.webSocketRef # 0
          THEN [browserSockets EXCEPT ![provider.webSocketRef] = CloseCalled(@)]
          ELSE browserSockets
    /\ UNCHANGED <<clientClock, lastClose, httpVars, channelVars, dashboard>>

NextCourseClient ==
    \/ \E courseId \in CourseIds : CourseConnect(courseId)
    \/ \E b \in BrowserSocketIds : CourseSocketOpen(b)
    \/ \E b \in BrowserSocketIds : CourseSocketClose(b)
    \/ CourseTimerFires
    \/ Tick
    \/ CourseDisconnect

SpecCourseClient == Init /\ [][NextCourseClient]_vars

\* ------------------------------------------ subscribe and the message handler
\* (the same code in part_007 and in lib/websocket.tsx)
MessageTypes == {"participationRequest", "participationRequestDeactivated"}

\* the callback functions the components pass
Callbacks == {1, 2}

\* the filter compares type and callback instead of the subscription object
Unsubscribed_byTypeAndCallback(subscriptions, subscription) ==
    SelectSeq(subscriptions,
              LAMBDA x : x.type # subscription.type \/ x.callback # subscription.callback)

\* subscriptionsRef.current.filter(s => s !== subscription)
Unsubscribed(subscriptions, subscription) ==
    SelectSeq(subscriptions, LAMBDA x : x.id # subscription.id)

\* subscriptionsRef.current.forEach(subscription => { if (subscription.type
\* === message.type) subscription.callback(message.payload) }): the
\* subscriptions whose callback is called, in order
Dispatched(subscriptions, type) ==
    SelectSeq(subscriptions, LAMBDA x : x.type = type)

\* subscribe(type, callback)
Subscribe(type, callback) ==
    /\ Len(provider.subscribed) < MaxSubscriptions
    /\ LET subscription == [id |-> Len(provider.subscribed) + 1,
                            type |-> type, callback |-> callback]
       IN  provider' = [provider EXCEPT
                           !.subscriptionsRef = Append(@, subscription),
                           !.subscribed = Append(@, subscription)]
    /\ UNCHANGED <<browserSockets, clientClock, lastClose, httpVars, channelVars, dashboard>>

\* the function that the id-th call of subscribe returned is called
Unsubscribe(id) ==
    /\ id \in DOMAIN provider.subscribed
    /\ Len(provider.unsubscribeCalls) < MaxUnsubscribeCalls
    /\ provider' = [provider EXCEPT
                       !.subscriptionsRef = Unsubscribed(@, provider.subscribed[id]),
                       !.unsubscribeCalls = Append(@, id)]
    /\ UNCHANGED <<browserSockets, clientClock, lastClose, httpVars, channelVars, dashboard>>

\* the socket's message event, for a message of this type
ReceiveMessage(type) ==
    /\ provider' = [provider EXCEPT
                       !.lastMessage =
                           [type |-> type,
                            invoked |-> Dispatched(provider.subscriptionsRef, type)]]
    /\ UNCHANGED <<browserSockets, clientClock, lastClose, httpVars, channelVars, dashboard>>

NextSubscriptions ==
    \/ \E type \in MessageTypes, callback \in Callbacks : Subscribe(type, callback)
    \/ \E id \in 1..MaxSubscriptions : Unsubscribe(id)
    \/ \E type \in MessageTypes : ReceiveMessage(type)

SpecSubscriptions == Init /\ [][NextSubscriptions]_vars

\* ------------------------------------------------------------ AdminDashboard
\* the next event reaches the dashboard's subscriptions: refetchRequests()
\* for participationRequest and participationRequestDeactivated,
\* refetchRecords() for participationRecordCreated and
\* participationRecordsDeleted.  `seen` counts the events that are past.
HandleEvent ==
    /\ dashboard.seen < Len(published)
    /\ LET event == published[dashboard.seen + 1]
       IN  dashboard' =
               [dashboard EXCEPT
                   !.seen = @ + 1,
                   !.requests =
                       IF event.type \in {"participationRequest",
                                          "participationRequestDeactivated"}
                       THEN FetchRequests(participationRequests) ELSE @,
                   !.records =
                       IF event.type \in {"participationRecordCreated",
                                          "participationRecordsDeleted"}
                       THEN FetchRecords(participationRecords) ELSE @]
    /\ UNCHANGED <<provider, browserSockets, clientClock, lastClose, httpVars, channelVars>>

\* the next event does not reach the dashboard: its connection was not OPEN
\* when the event was broadcast, or the send failed
MissEvent ==
    /\ dashboard.seen < Len(published)
    /\ dashboard' = [dashboard EXCEPT !.seen = @ + 1, !.missed = TRUE]
    /\ UNCHANGED <<provider, browserSockets, clientClock, lastClose, httpVars, channelVars>>

\* refetchInterval: 10000 of the requests query
PollRequests ==
    /\ dashboard' = [dashboard EXCEPT !.requests = FetchRequests(participationRequests)]
    /\ UNCHANGED <<provider, browserSockets, clientClock, lastClose, httpVars, channelVars>>

\* a handler that has started takes its next step
HandlerStep ==
    \E c \in FanOutSlots :
        \/ \E t \in 0..MaxTime : OpenRequestCreate(c, t)
        \/ OpenRequestInsert(c)
        \/ OpenRequestBroadcast(c)
        \/ CloseRequestDeactivate(c)
        \/ CloseRequestBroadcast(c)
        \/ \E t \in 0..MaxTime : AwardCreate(c, t)
        \/ AwardBroadcast(c)
        \/ DeleteTodayBroadcast(c)
        \/ Return(c)

\* the dashboard of one instructor while a student raises and lowers a hand
\* and another session of the instructor awards points and deletes the day's
\* records
NextDashboard ==
    \/ HandleEvent
    \/ MissEvent
    \/ PollRequests
    \/ HandlerStep
    \/ \E c \in FanOutSlots : OpenRequestCheck(c, StudentA, NoBody)
    \/ \E c \in FanOutSlots, id \in 1..MaxRequests : CloseRequestGet(c, StudentA, id)
    \/ \E c \in FanOutSlots, points \in {0, 8} :
          AwardGetUser(c, AdminId, [studentId |-> StudentB, points |-> points,
                                    requestId |-> 0])
    \/ \E c \in FanOutSlots, t \in 0..MaxTime : DeleteTodayDelete(c, AdminId, t)

\* the interval timer keeps firing, an event is delivered or lost, and a
\* handler that has started runs to its response
SpecDashboard ==
    /\ Init /\ [][NextDashboard]_vars
    /\ WF_vars(PollRequests)
    /\ WF_vars(HandleEvent \/ MissEvent)
    /\ WF_vars(HandlerStep)

\* ================================================================ properties
Deactivated == "participationRequestDeactivated"

\* the ids of the student's requests that are OPEN
OpenRequestsOf(s) ==
    {i \in DOMAIN participationRequests :
        participationRequests[i].studentId = s /\ participationRequests[i].active}

\* what GET /api/students/:id/participation-points answers for s over recs
TotalPoints(recs, s) == getTotalParticipationPointsByStudent(recs, s)

\* call c takes a step
Stepped(c) == calls'[c] # calls[c]

\* call c is a finished handler of this kind
Done(c, kind) == calls[c].kind = kind /\ calls[c].pc = "done"

\* the actor may close request id: an instructor, or the student who owns it
MayClose(u, id) ==
    /\ u \in Users
    /\ users[u].role # "student" \/ participationRequests[id].studentId = u

\* how many request.closed events were published for request id
ClosedEventsFor(id) ==
    Cardinality({k \in DOMAIN published : published[k] = Event(Deactivated, id)})

StoreUnchanged ==
    /\ participationRequests' = participationRequests
    /\ participationRecords' = participationRecords

\* C1: every student has at most one OPEN request in every reachable state,
\* whatever the interleaving of the handlers' store reads and writes.
AtMostOneOpenRequestPerStudent ==
    \A s \in Users : Cardinality(OpenRequestsOf(s)) <= 1

\* C2: an openRequest by a student who has an OPEN request when the handler
\* looks is answered 400, inserts no request, leaves the existing one as it
\* is and publishes nothing, nor does anything happen after the response.
DuplicateOpenRequestRejected ==
    [][\A c \in Slots :
          /\ (/\ calls[c].kind = "idle"
              /\ calls'[c].kind = "openRequest"
              /\ OpenRequestsOf(calls'[c].user) # {})
             => (/\ calls'[c].pc = "done"
                 /\ calls'[c].status = 400
                 /\ participationRequests' = participationRequests
                 /\ published' = published)
          /\ (Done(c, "openRequest") /\ calls[c].status = 400 /\ Stepped(c))
             => (StoreUnchanged /\ published' = published)]_vars

DuplicateOpenRequestSeen ==
    \E c \in Slots :
        /\ Done(c, "openRequest")
        /\ calls[c].status = 400
        /\ OpenRequestsOf(calls[c].user) # {}

\* C3: a CLOSED request is CLOSED in every later state, and no step removes
\* a request from the store or changes the id of one.
ClosedIsTerminal ==
    [][/\ Len(participationRequests') >= Len(participationRequests)
       /\ \A i \in DOMAIN participationRequests :
             /\ participationRequests'[i].id = participationRequests[i].id
             /\ participationRequests'[i].studentId = participationRequests[i].studentId
             /\ ~participationRequests[i].active => ~participationRequests'[i].active]_vars

\* a request was closed, something else was published afterwards, and the
\* request is still closed
ClosedRequestOutlivesOperations ==
    \E k \in DOMAIN published :
        /\ k < Len(published)
        /\ published[k].type = Deactivated
        /\ ~participationRequests[published[k].id].active

\* C4: a successful award that names a request R which exists when the
\* handler looks it up leaves R CLOSED and out of the list of open requests;
\* its insert adds one record of the awarded student and raises that
\* student's total by the awarded points.
AwardClosesLinkedRequest ==
    /\ [](\A c \in Slots :
            (/\ Done(c, "awardPoints")
             /\ calls[c].status = 201
             /\ calls[c].request # <<>>)
            => LET open == getActiveParticipationRequests(participationRequests)
               IN  /\ ~participationRequests[calls[c].requestId].active
                   /\ \A k \in DOMAIN open : open[k].id # calls[c].requestId)
    /\ [][\A c \in Slots :
            (calls[c].kind = "awardPoints" /\ calls[c].pc = "create" /\ Stepped(c))
            => /\ \E r \in participationRecords' :
                    /\ r \notin participationRecords
                    /\ \A old \in participationRecords : old.id # r.id
                    /\ participationRecords' = participationRecords \cup {r}
                    /\ r.studentId = calls[c].studentId
                    /\ r.points = calls[c].points
               /\ TotalPoints(participationRecords', calls[c].studentId)
                    = TotalPoints(participationRecords, calls[c].studentId)
                        + calls[c].points]_vars

\* an award has answered 201 after closing the OPEN request it names
AwardClosedOpenRequest ==
    \E c \in Slots :
        /\ Done(c, "awardPoints")
        /\ calls[c].status = 201
        /\ calls[c].closed
        /\ calls[c].request # <<>> /\ calls[c].request[1].active

\* C5: an award that finds its linked request already CLOSED answers 201
\* with the record it created; the request stays CLOSED; and over its whole
\* run an award inserts exactly one record, at its insert step.
AwardOnClosedRequestSucceeds ==
    /\ [](\A c \in Slots :
            (/\ Done(c, "awardPoints")
             /\ calls[c].request # <<>>
             /\ ~calls[c].request[1].active)
            => /\ calls[c].status = 201
               /\ Len(calls[c].record) = 1
               /\ ~participationRequests[calls[c].requestId].active)
    /\ [][\A c \in Slots :
            (calls'[c].kind = "awardPoints" \/ calls[c].kind = "awardPoints")
              /\ Stepped(c)
            => IF calls[c].pc = "create"
               THEN /\ participationRecords \subseteq participationRecords'
                    /\ Cardinality(participationRecords' \ participationRecords) = 1
               ELSE participationRecords' = participationRecords]_vars

\* an award has answered after reading its linked request as CLOSED
AwardSawClosedRequest ==
    \E c \in Slots :
        /\ Done(c, "awardPoints")
        /\ calls[c].request # <<>>
        /\ ~calls[c].request[1].active
        /\ calls[c].record # <<>>

CloseBroadcastsOnlyOnce ==
    [][\A c \in Slots :
          (calls[c].kind = "closeRequest" /\ calls[c].pc = "broadcast" /\ Stepped(c))
          => (published' = published \/ ClosedEventsFor(calls[c].requestId) = 0)]_vars

RECURSIVE PointsUpTo(_, _)
PointsUpTo(n, s) ==
    IF n = 0 THEN 0
    ELSE LET rows == {r \in participationRecords : r.id = n /\ r.studentId = s}
         IN  PointsUpTo(n - 1, s)
               + (IF rows = {} THEN 0 ELSE (CHOOSE r \in rows : TRUE).points)

OwnPoints(s) == PointsUpTo(participationRecordCurrentId - 1, s)

\* C9: the total of S is the sum of the points of the stored records of S,
\* hidden ones included and other students' records excluded, and 0 when S
\* has none; this is what the points route answers.
TotalIsSumOfOwnRecords ==
    /\ \A s \in StudentIds : TotalPoints(participationRecords, s) = OwnPoints(s)
    /\ \A s \in StudentIds :
          (\A r \in participationRecords : r.studentId # s)
            => TotalPoints(participationRecords, s) = 0
    /\ \A c \in Slots :
          (Done(c, "getPoints") /\ calls[c].status = 200)
            => calls[c].points = OwnPoints(calls[c].studentId)

\* the points route has answered for student A, who has a hidden and a shown
\* record, while student B has a record too
TotalOverHiddenAndShown ==
    \E c \in Slots :
        /\ Done(c, "getPoints")
        /\ calls[c].status = 200
        /\ calls[c].studentId = StudentA
        /\ \E r \in participationRecords : r.studentId = StudentA /\ r.hidden
        /\ \E r \in participationRecords : r.studentId = StudentA /\ ~r.hidden
        /\ \E r \in participationRecords : r.studentId = StudentB

\* C10 as stated: the total of S is the sum of the points of every record
\* ever created for S, and no step lowers it.
TotalCountsEveryRecordAndNeverDrops ==
    /\ [](\A s \in Users : TotalPoints(participationRecords, s) = awarded[s])
    /\ [][\A s \in Users : TotalPoints(participationRecords', s)
                             >= TotalPoints(participationRecords, s)]_vars

\* the step is the delete of DELETE /api/participation-records/today
IsDeleteTodayStep ==
    \E c \in Slots : calls[c].kind = "idle" /\ calls'[c].kind = "deleteToday"

\* the step is the insert of an award to s
IsAwardInsertFor(c, s) ==
    /\ calls[c].kind = "awardPoints"
    /\ calls[c].pc = "create"
    /\ Stepped(c)
    /\ calls[c].studentId = s

\* C10 as amended: the insert of an award to S changes the total of S by
\* exactly the awarded points; no other step changes it except the delete of
\* today's records; and a step that lowers it is that delete or the insert of
\* an award of negative points.
TotalChangesOnlyByAwardOrDelete ==
    [][\A s \in Users :
          LET before == TotalPoints(participationRecords, s)
              after  == TotalPoints(participationRecords', s)
          IN  /\ \A c \in Slots :
                    IsAwardInsertFor(c, s) => after = before + calls[c].points
              /\ after # before
                    => (IsDeleteTodayStep \/ \E c \in Slots : IsAwardInsertFor(c, s))
              /\ after < before
                    => (IsDeleteTodayStep
                        \/ \E c \in Slots : IsAwardInsertFor(c, s) /\ calls[c].points < 0)
      ]_vars

\* today's records were deleted and the total of some student is now below
\* the points ever awarded to them
TotalDroppedByDelete ==
    \E c \in Slots, s \in Users :
        /\ calls[c].kind = "deleteToday"
        /\ calls[c].count >= 1
        /\ TotalPoints(participationRecords, s) < awarded[s]

\* C11: every stored record has points >= 0, and an award of negative points
\* is answered 400 without creating a record.
StoredPointsAreNonNegative ==
    /\ \A r \in participationRecords : r.points >= 0
    /\ \A c \in Slots :
          (calls[c].kind = "awardPoints" /\ calls[c].points < 0)
            => (calls[c].pc = "done" /\ calls[c].status = 400)

\* the step is the first one of an award by the instructor to a student
IsAwardStartFor(c) ==
    /\ calls[c].kind = "idle"
    /\ calls'[c].kind = "awardPoints"
    /\ ensureAdmin(calls'[c].user) = 0

\* C12: awards are appended without deduplication: an award by the
\* instructor to a student is never refused, whatever records and whatever
\* other awards for the same student and request exist; its insert adds one
\* record under an id no stored record and no other award has, and raises
\* the student's total by the awarded points.
AwardsAreNotDeduplicated ==
    /\ [](\A r1, r2 \in participationRecords : r1.id = r2.id => r1 = r2)
    /\ [](\A c, d \in Slots :
            (/\ c # d
             /\ calls[c].kind = "awardPoints" /\ calls[c].record # <<>>
             /\ calls[d].kind = "awardPoints" /\ calls[d].record # <<>>)
            => calls[c].record[1].id # calls[d].record[1].id)
    /\ [](\A c \in Slots :
            (/\ Done(c, "awardPoints")
             /\ ensureAdmin(calls[c].user) = 0
             /\ calls[c].studentId \in {StudentA, StudentB})
            => (calls[c].status = 201 /\ calls[c].record # <<>>))
    /\ [][\A c \in Slots :
            /\ (IsAwardStartFor(c) /\ calls'[c].studentId \in {StudentA, StudentB})
                 => calls'[c].pc = "create"
            /\ (calls[c].kind = "awardPoints" /\ calls[c].pc = "create" /\ Stepped(c))
                 => (/\ calls'[c].record # <<>>
                     /\ calls'[c].record[1] \in participationRecords'
                     /\ \A old \in participationRecords :
                           old.id # calls'[c].record[1].id
                     /\ Cardinality(participationRecords')
                           = Cardinality(participationRecords) + 1
                     /\ TotalPoints(participationRecords', calls[c].studentId)
                           = TotalPoints(participationRecords, calls[c].studentId)
                               + calls[c].points)]_vars

\* two awards naming the same student and the same request have both
\* inserted their record, one of them has answered 201, and the student's
\* total holds both
TwoAwardsForSameRequest ==
    \E c \in Slots, d \in Slots :
        /\ c # d
        /\ Done(c, "awardPoints") /\ calls[c].status = 201
        /\ calls[d].kind = "awardPoints" /\ calls[d].record # <<>>
        /\ calls[c].studentId = calls[d].studentId
        /\ calls[c].requestId # 0
        /\ calls[c].requestId = calls[d].requestId
        /\ {calls[c].record[1], calls[d].record[1]} \subseteq participationRecords
        /\ TotalPoints(participationRecords, calls[c].studentId)
             >= calls[c].points + calls[d].points

\* C13: an award by the instructor whose studentId resolves to no user, or
\* to a user who is no student, is answered 400 at once: no record is
\* inserted, no request changes, nothing is published, and nothing follows
\* the response.
InvalidStudentRejected ==
    [][\A c \in Slots :
          /\ (/\ IsAwardStartFor(c)
              /\ (\/ calls'[c].studentId \notin DOMAIN users
                  \/ users[calls'[c].studentId].role # "student"))
             => (/\ calls'[c].pc = "done"
                 /\ calls'[c].status = 400
                 /\ calls'[c].record = <<>>
                 /\ StoreUnchanged
                 /\ published' = published)
          /\ (Done(c, "awardPoints") /\ calls[c].status = 400 /\ Stepped(c))
             => (StoreUnchanged /\ published' = published /\ calls'[c] = IdleCall)]_vars

\* an award to a user who is no student, naming a request that is OPEN, has
\* been answered 400 and the request is still OPEN
InvalidStudentAwardSeen ==
    \E c \in Slots :
        /\ Done(c, "awardPoints")
        /\ calls[c].status = 400
        /\ calls[c].requestId \in DOMAIN participationRequests
        /\ participationRequests[calls[c].requestId].active

\* the step is the first one of a closeRequest by a caller who is logged in
IsCloseStart(c) ==
    /\ calls[c].kind = "idle"
    /\ calls'[c].kind = "closeRequest"
    /\ calls'[c].user \in Users

OpenRequests ==
    {participationRequests[i] : i \in {j \in DOMAIN participationRequests :
                                         participationRequests[j].active}}

\* C15: the list answered by GET /api/participation-requests holds every
\* OPEN request once and no CLOSED one, and a request with an earlier
\* timestamp stands before one with a later timestamp.
ListIsOpenRequestsByCreation ==
    \A c \in Slots :
        Done(c, "listOpenRequests")
          => LET list == calls[c].list
             IN  /\ calls[c].status = 200
                 /\ {list[k] : k \in DOMAIN list} = OpenRequests
                 /\ Len(list) = Cardinality(OpenRequests)
                 /\ \A i, j \in DOMAIN list :
                       list[i].timestamp < list[j].timestamp => i < j

\* the list has been answered with two requests, the one inserted second
\* (with the earlier timestamp) first
ListDiffersFromInsertionOrder ==
    \E c \in Slots :
        /\ Done(c, "listOpenRequests")
        /\ Len(calls[c].list) = 2
        /\ calls[c].list[1].id > calls[c].list[2].id
        /\ calls[c].list[1].timestamp < calls[c].list[2].timestamp

\* the messages this step hands to broadcastToAll, in order
NewlyPublished == SubSeq(published', Len(published) + 1, Len(published'))

\* connection k is in wss.clients
IsClient(k) == \E i \in DOMAIN wssClients : wssClients[i] = k

\* connection k is in wss.clients, OPEN, and its send does not throw
Deliverable(k) ==
    IsClient(k) /\ sockets[k].readyState = "OPEN" /\ ~sockets[k].sendThrows

\* C16: a broadcast adds the event exactly once, after what was sent before,
\* to every connection that is OPEN when broadcastToAll runs (the sends are
\* best-effort: a connection whose send throws gets nothing), and sends
\* nothing to a connection that is not OPEN; it changes the state of no
\* connection.
BroadcastReachesOpenConnectionsOnce ==
    [][published' # published
         => \A k \in ConnIds :
               /\ sockets'[k].readyState = sockets[k].readyState
               /\ sockets'[k].received =
                     IF Deliverable(k)
                     THEN sockets[k].received \o NewlyPublished
                     ELSE sockets[k].received]_vars

\* two events were published while connection 1 was OPEN: it holds both, once
\* each; connection 2 was OPEN for the first only and is CLOSING, still in
\* wss.clients, and holds the first only
BroadcastSkippedClosingConnection ==
    /\ Len(published) = 2
    /\ wssClients = <<1, 2>>
    /\ sockets[1].readyState = "OPEN"
    /\ sockets[1].received = <<Welcome>> \o published
    /\ sockets[2].readyState = "CLOSING"
    /\ sockets[2].received = <<Welcome, published[1]>>

\* C17: when the send to a connection in wss.clients throws during a
\* broadcast, every other OPEN connection still gets the event, the
\* connection that failed stays as it is, the store is left as the handler
\* wrote it, and the handler goes on to answer with its success status.
SendFailureIsContained ==
    [][(/\ published' # published
        /\ \E j \in ConnIds :
              IsClient(j) /\ sockets[j].readyState = "OPEN" /\ sockets[j].sendThrows)
         => /\ \A k \in ConnIds :
                  Deliverable(k)
                    => sockets'[k].received = sockets[k].received \o NewlyPublished
            /\ \A j \in ConnIds : sockets[j].sendThrows => sockets'[j] = sockets[j]
            /\ wssClients' = wssClients
            /\ StoreUnchanged
            /\ \E c \in Slots :
                  /\ Stepped(c)
                  /\ calls'[c].pc = "done"
                  /\ calls'[c].status = IF calls[c].kind \in {"openRequest", "awardPoints"}
                                        THEN 201 ELSE 200]_vars

\* the send to connection 1, the first in wss.clients, has thrown in every
\* broadcast; connection 2 holds every event, the request of the event is
\* stored, and the handler has answered with its success status
SendFailedBeforeOpenConnection ==
    /\ published # <<>>
    /\ wssClients = <<1, 2>>
    /\ sockets[1].readyState = "OPEN" /\ sockets[1].sendThrows
    /\ sockets[1].received = <<>>
    /\ sockets[2].readyState = "OPEN"
    /\ sockets[2].received = <<Welcome>> \o published
    /\ \E c \in Slots :
          /\ Done(c, "openRequest")
          /\ calls[c].status = 201
          /\ participationRequests[calls[c].request[1].id] = calls[c].request[1]

\* C18: a connection that is CLOSED is in no user's set of connectedClients,
\* and connectedClients maps no userId to an empty set.
ClosedConnectionInNoSet ==
    \A u \in DOMAIN connectedClients :
        /\ connectedClients[u] # {}
        /\ \A k \in connectedClients[u] : sockets[k].readyState # "CLOSED"

\* connection b is superseded: it is not the connection the provider made last
Superseded(b) == browserSockets[b].connectionId # provider.connectionIdRef

\* the step delivers the open event of socket b
IsOpenEvent(b) == ~browserSockets[b].opened /\ browserSockets'[b].opened

\* the step delivers the close event of socket b
IsCloseEvent(b) ==
    browserSockets[b].readyState # "CLOSED" /\ browserSockets'[b].readyState = "CLOSED"

\* C19: the open event and the close event of a superseded connection leave
\* the connected and connecting flags, the ping timer and the reconnect timer
\* as they are, and no step lowers the connection id.
StaleEventsAreDiscarded ==
    [][/\ \A b \in BrowserSocketIds :
             (Superseded(b) /\ (IsOpenEvent(b) \/ IsCloseEvent(b)))
               => /\ provider'.connected = provider.connected
                  /\ provider'.connecting = provider.connecting
                  /\ provider'.pingIntervalRef = provider.pingIntervalRef
                  /\ provider'.reconnectTimeoutRef = provider.reconnectTimeoutRef
       /\ provider'.connectionIdRef >= provider.connectionIdRef]_vars

\* C20: after a close nobody asked for, the next WebSocket object is created
\* no earlier than min(1s * 1.5^k, 30s) after it, k being the number of such
\* closes since the last successful open before this one, and the delay is
\* at most 30s.
ReconnectWaitsForBackoff ==
    [][(SocketCreated /\ lastClose.pending)
         => /\ clientClock >= lastClose.at + ReconnectDelay(lastClose.closes - 1)
            /\ ReconnectDelay(lastClose.closes - 1) <= MAX_RECONNECT_DELAY]_vars

\* how many times x occurs in seq
Occurrences(seq, x) == Cardinality({i \in DOMAIN seq : seq[i] = x})

\* seq without its i-th element
WithoutIndex(seq, i) == SubSeq(seq, 1, i - 1) \o SubSeq(seq, i + 1, Len(seq))

DeletedToday(c) ==
    /\ Stepped(c)
    /\ calls'[c].kind = "deleteToday"
    /\ calls'[c].pc = "broadcast"

\* the day a time falls in
DayOf(t) == t \div TicksPerDay

RecordsAreImmutable ==
    [][/\ \A r \in participationRecords, q \in participationRecords' :
             r.id = q.id
             => /\ q.studentId = r.studentId
                /\ q.points = r.points
                /\ q.timestamp = r.timestamp
       /\ (\E r \in participationRecords :
              \A q \in participationRecords' : q.id # r.id)
          => \E c \in Slots : DeletedToday(c)]_vars

\* the seeded record is as it was after a later award to the same student and
\* a delete-today's-records that removed the awarded record
RecordSurvivedAwardAndDelete ==
    /\ [id |-> 1, studentId |-> StudentA, points |-> 8, timestamp |-> 0,
        hidden |-> TRUE] \in participationRecords
    /\ participationRecordCurrentId > 2
    /\ \A r \in participationRecords : r.id = 1
    /\ \E c \in Slots : calls[c].kind = "deleteToday" /\ calls[c].count >= 1

\* the records a caller may see: every record for an administrator, the
\* caller's own otherwise
RecordsInScope(u) ==
    {r \in participationRecords : users[u].role = "admin" \/ r.studentId = u}

\* C25: the list of records and the total use separate predicates: a list
\* requested without showHidden=true holds the caller's records that are not
\* hidden and no hidden one, for a student and for an instructor alike, while
\* the student's total still counts the hidden ones; a list requested with
\* showHidden=true holds the hidden ones too.
HiddenRecordsAreListedOnlyOnDemand ==
    \A c \in Slots :
        Done(c, "listRecords")
        => /\ {record.id : record \in calls[c].records}
                = {r.id : r \in {x \in RecordsInScope(calls[c].user) :
                                    calls[c].showHidden \/ ~x.hidden}}
           /\ \A s \in Users :
                 getTotalParticipationPointsByStudent(participationRecords, s)
                   = SumOfPoints({r \in participationRecords : r.studentId = s})

\* the call is one its caller has no right to make: openRequest by anyone but
\* a student, awardPoints or delete-today's-records by anyone but an
\* instructor, closeRequest of an existing request by a student who does not
\* own it, or any of them by a caller who is not logged in
Unauthorized(call) ==
    \/ /\ call.kind \in {"openRequest", "closeRequest", "awardPoints", "deleteToday"}
       /\ call.user \notin Users
    \/ /\ call.kind = "openRequest"
       /\ call.user \in Users
       /\ call.user # StudentA /\ call.user # StudentB
    \/ /\ call.kind \in {"awardPoints", "deleteToday"}
       /\ call.user \in Users
       /\ call.user # AdminId
    \/ /\ call.kind = "closeRequest"
       /\ call.user \in {StudentA, StudentB}
       /\ call.requestId \in DOMAIN participationRequests
       /\ participationRequests[call.requestId].studentId # call.user

\* C26: authorization comes before any change of the store and before any
\* event: the first step of an unauthorized call is its response, 401 to a
\* caller who is not logged in and 403 otherwise, and that step changes no
\* request and no record, publishes nothing and sends nothing.
UnauthorizedCallsChangeNothing ==
    [][\A c \in Slots :
          (calls[c].kind = "idle" /\ Stepped(c) /\ Unauthorized(calls'[c]))
          => /\ calls'[c].pc = "done"
             /\ calls'[c].status = IF calls'[c].user \in Users THEN 403 ELSE 401
             /\ StoreUnchanged
             /\ participationRecordCurrentId' = participationRecordCurrentId
             /\ published' = published
             /\ sockets' = sockets]_vars

\* delete-today's-records was refused to a caller who is not logged in and
\* award to a student, while the store holds a record and an open request
RefusedWhileStoreHoldsRows ==
    /\ \E c \in Slots :
          \/ Done(c, "deleteToday") /\ calls[c].status = 401
          \/ Done(c, "awardPoints") /\ calls[c].status = 403
    /\ participationRecords # {}
    /\ \E i \in DOMAIN participationRequests : participationRequests[i].active

\* the fields of a record
Fields(record) == DOMAIN record

\* the event names no password, and if it is a request.opened or a
\* record.created event, its student profile is id, name and username
CarriesNoPassword(event) ==
    /\ "password" \notin Fields(event)
    /\ "payload" \in Fields(event)
       => /\ "password" \notin Fields(event.payload)
          /\ Fields(event.payload.student) = {"id", "name", "username"}
    /\ event.type \in {"participationRequest", "participationRecordCreated"}
       => "payload" \in Fields(event)

\* C27: no event handed to broadcastToAll, and so no message a connection
\* receives, carries a user's password; the student profile in the payload of
\* request.opened and of record.created is id, name and username and nothing
\* else.
NoEventCarriesAPassword ==
    /\ \A k \in DOMAIN published : CarriesNoPassword(published[k])
    /\ \A k \in ConnIds :
          \A i \in DOMAIN sockets[k].received :
              sockets[k].received[i].type \in
                  {"participationRequest", "participationRecordCreated",
                   "participationRequestDeactivated", "participationRecordsDeleted"}
              => CarriesNoPassword(sockets[k].received[i])

\* a request.opened and a record.created event, both naming student A, were
\* published
BothProfileEventsPublished ==
    /\ \E k \in DOMAIN published :
          /\ published[k].type = "participationRequest"
          /\ published[k].payload.student.id = StudentA
    /\ \E k \in DOMAIN published :
          /\ published[k].type = "participationRecordCreated"
          /\ published[k].payload.student.id = StudentA

\* call c hands its events to broadcastToAll in this step
Broadcasts(c) == Stepped(c) /\ Len(published') > Len(published)

\* C23: events are broadcast in the order in which the store mutations of
\* their operations complete: when a call broadcasts, no other call whose
\* last write to the store came earlier has its broadcast still ahead of it
\* (so every connection that is OPEN throughout receives the two operations'
\* events in the order of the writes).
EventsFollowMutationOrder ==
    [][\A c, d \in Slots :
          (/\ c # d
           /\ Broadcasts(c)
           /\ calls[d].pc \notin {"idle", "done"}
           /\ calls[d].order > 0)
          => calls[d].order > calls[c].order]_vars

\* connection k is in some user's set of the registry
IsRegistered(k) == \E u \in DOMAIN connectedClients : k \in connectedClients[u]

\* C29: each sweep terminates every connection in wss.clients that is not
\* OPEN and leaves the OPEN ones as they are; so a connection that is tracked
\* and no longer OPEN is eventually terminated, after which it is neither
\* tracked nor registered.
NonOpenConnectionsAreSweptAway ==
    /\ [][(\E k \in ConnIds : sockets'[k].terminated /\ ~sockets[k].terminated)
          => \A k \in ConnIds :
                IF IsClient(k) /\ sockets[k].readyState # "OPEN"
                THEN sockets'[k].terminated
                ELSE sockets'[k] = sockets[k]]_vars
    /\ \A k \in ConnIds :
          (IsClient(k) /\ sockets[k].readyState # "OPEN")
             ~> (~IsClient(k) /\ ~IsRegistered(k))

\* connection k handles a join in this step: the confirmation is sent
IsJoinStep(k) ==
    /\ sockets'[k].userId # 0
    /\ sockets'[k].received
         = Append(sockets[k].received, JoinConfirmed(sockets'[k].userId))

\* connection k is closed in this step
IsDisconnectStep(k) ==
    sockets[k].readyState # "CLOSED" /\ sockets'[k].readyState = "CLOSED"

\* C28: a step of the channel (a connection accepted, a join, a ping, a
\* disconnect, the sweep) changes no request and no record, and neither does
\* a broadcast; the registry changes only in a join or a disconnect, for that
\* connection only, and never in a step of an HTTP call.
ChannelLeavesStoreAlone ==
    [][/\ calls' = calls
          => /\ StoreUnchanged
             /\ participationRecordCurrentId' = participationRecordCurrentId
             /\ published' = published
       /\ published' # published => StoreUnchanged
       /\ connectedClients' # connectedClients
          => /\ calls' = calls
             /\ \E k \in ConnIds :
                   /\ IsJoinStep(k) \/ IsDisconnectStep(k)
                   /\ \A j \in ConnIds \ {k} :
                         \A u \in Users :
                             (u \in DOMAIN connectedClients /\ j \in connectedClients[u])
                               <=> (u \in DOMAIN connectedClients'
                                      /\ j \in connectedClients'[u])]_vars

\* a registered connection has received a broadcast event while another
\* connection was terminated by the sweep and an open request is stored
ChannelBusyBesideStore ==
    /\ \E k \in ConnIds :
          /\ IsRegistered(k)
          /\ \E i \in DOMAIN sockets[k].received :
                sockets[k].received[i].type = "participationRequest"
    /\ \E k \in ConnIds : sockets[k].terminated
    /\ \E i \in DOMAIN participationRequests : participationRequests[i].active

\* the dashboard shows what the store holds
DisplayEqualsStore ==
    /\ dashboard.requests = FetchRequests(participationRequests)
    /\ dashboard.records = FetchRecords(participationRecords)

\* C22: a missed event causes no permanent inconsistency: once the store is
\* no longer changed, the open-request queue and the record list on display
\* come to equal the store and stay so, by the fallback poll if an event was
\* missed.
MissedEventsAreReconciled == <>[]DisplayEqualsStore

\* a read of the store, as it is after the step, shows the change that the
\* event reports: the opened request is stored for its student, the closed
\* request is stored and not active, the created record has been inserted
\* (it is stored, or a delete-today's-records has removed it since)
StoreShows(event) ==
    /\ event.type = "participationRequest"
       => /\ event.id \in DOMAIN participationRequests'
          /\ participationRequests'[event.id].studentId = event.payload.studentId
    /\ event.type = "participationRequestDeactivated"
       => /\ event.id \in DOMAIN participationRequests'
          /\ ~participationRequests'[event.id].active
    /\ event.type = "participationRecordCreated"
       => /\ event.id < participationRecordCurrentId'
          /\ \/ \E r \in participationRecords' :
                   r.id = event.id /\ r.studentId = event.payload.studentId
             \/ \A r \in participationRecords' : r.id # event.id

\* C31: an event is published only after the store mutation it reports has
\* completed: in the step that broadcasts it, the call's write to the store
\* lies behind it and a read of the store shows the change, so that a client
\* that refetches on the event does not see the state from before.
EventsFollowTheirMutation ==
    [][\A c \in Slots :
          Broadcasts(c)
          => /\ calls[c].order > 0
             /\ StoreUnchanged
             /\ \A i \in DOMAIN NewlyPublished : StoreShows(NewlyPublished[i])]_vars

\* all four kinds of event have been published, and the opened request and
\* the created record are in the store
EveryKindOfEventPublished ==
    /\ \E k \in DOMAIN published :
          /\ published[k].type = "participationRequest"
          /\ published[k].id \in DOMAIN participationRequests
    /\ \E k \in DOMAIN published :
          /\ published[k].type = "participationRecordCreated"
          /\ \E r \in participationRecords : r.id = published[k].id
    /\ \E k \in DOMAIN published :
          published[k].type \in {"participationRequestDeactivated",
                                 "participationRecordsDeleted"}

\* C32: awardPoints publishes request.closed only if its own close step
\* took the linked request from OPEN to CLOSED: whenever the close step of an
\* award marks the call as the one that closed the request, which is what
\* makes it publish request.closed, the request was OPEN before that step,
\* also when a closeRequest runs beside it (so that a request closed by the
\* other operation gets no second request.closed from the award).
AwardPublishesOnlyItsOwnClose ==
    [][\A c \in Slots :
          (/\ calls[c].kind = "awardPoints"
           /\ ~calls[c].closed
           /\ calls'[c].closed)
          => /\ participationRequests[calls[c].requestId].active
             /\ ClosedEventsFor(calls[c].requestId) = 0]_vars

\* C35: an awardPoints call that answers with an error (400, 403 or 500) has
\* added no record to the store, also when the store fails while the linked
\* request is read or closed.
FailedAwardAddsNoRecord ==
    \A c \in Slots :
        (Done(c, "awardPoints") /\ calls[c].status \in {400, 403, 500})
        => calls[c].record = <<>>

\* C36: every request enters the store under the id of the logged-in
\* student whose openRequest inserts it, whatever studentId the body of the
\* call names: no student raises a hand on behalf of another.
RequestsBelongToTheirCaller ==
    [][\A c \in Slots :
          (/\ calls[c].kind = "openRequest"
           /\ Len(participationRequests') > Len(participationRequests)
           /\ Stepped(c))
          => LET row == participationRequests'[Len(participationRequests')]
             IN  /\ Len(participationRequests') = Len(participationRequests) + 1
                 /\ row.studentId = calls[c].user
                 /\ calls[c].user \in {StudentA, StudentB}
                 /\ \A i \in DOMAIN participationRequests :
                       participationRequests'[i].studentId
                         = participationRequests[i].studentId]_vars

\* a student's openRequest whose body named the other student has inserted
\* its request
InsertedDespiteForeignBody ==
    \E c \in Slots :
        /\ calls[c].kind = "openRequest"
        /\ calls[c].pc = "broadcast"
        /\ calls[c].bodyStudentId \in {StudentA, StudentB}
        /\ calls[c].bodyStudentId # calls[c].user
        /\ calls[c].request[1].studentId = calls[c].user

\* C37: awardPoints closes a linked request only when the request belongs to
\* the awarded student: a request that an award's step takes from OPEN to
\* CLOSED has the award's studentId.
AwardClosesOnlyOwnRequest ==
    [][\A c \in Slots :
          (calls[c].kind = "awardPoints" /\ Stepped(c))
          => \A i \in DOMAIN participationRequests :
                (participationRequests[i].active /\ ~participationRequests'[i].active)
                => participationRequests[i].studentId = calls[c].studentId]_vars

\* the sockets that are CONNECTING or OPEN
LiveSockets ==
    {b \in BrowserSocketIds : browserSockets[b].readyState \in {"CONNECTING", "OPEN"}}

\* C39: a provider has at most one socket that is CONNECTING or OPEN, and that
\* one is the socket in webSocketRef; at most one ping timer runs.
OneLiveSocketAndOnePingTimer ==
    /\ Cardinality(LiveSockets) <= 1
    /\ \A b \in LiveSockets : provider.webSocketRef = b
    /\ Cardinality(provider.pingTimers) <= 1

\* a new connection replaced one that was still connecting, and a ping timer
\* runs for the connection that opened after it
ReplacedSocketAndPingTimerSeen ==
    /\ \E a, b \in BrowserSocketIds :
          /\ a # b
          /\ browserSockets[a].readyState \in {"CLOSING", "CLOSED"}
          /\ ~browserSockets[a].opened
          /\ browserSockets[b].readyState = "OPEN"
          /\ provider.pingTimers = {b}

\* C38: after disconnect() the client stays disconnected: until the
\* application calls connect() again no WebSocket object is created and no
\* reconnect timer is set or fires.
StaysDisconnectedAfterDisconnect ==
    [][(provider.disconnected /\ provider'.disconnected)
          => /\ ~SocketCreated
             /\ provider'.reconnectTimeoutRef = -1]_vars

\* C33: while the provider is mounted and the user logged in, every
\* unexpected close of the current connection is followed by a new connection
\* attempt, after every failed attempt again.
ClosedConnectionIsRetried ==
    lastClose.pending ~> ~lastClose.pending

\* the second attempt in a row failed and the provider tried a third time
RetriedAfterTwoFailures ==
    /\ lastClose.closes = 2
    /\ ~lastClose.pending
    /\ \E b \in BrowserSocketIds :
          /\ browserSockets[b].readyState = "CONNECTING"
          /\ browserSockets[b].connectionId = provider.connectionIdRef

\* C34: every connection the client opens sends, when it opens, a join message
\* that carries the id of the user who is logged in at that moment.
JoinCarriesCurrentUser ==
    [][\A b \in BrowserSocketIds :
          (browserSockets[b].join = 0 /\ browserSockets'[b].join # 0)
          => browserSockets'[b].join = provider.user]_vars

====
